---- MODULE Spec2Model ----
(***************************************************************************)
(* A model of proton-beam's ingestion pipeline (proton-beam-cli):          *)
(*   - the chunk scheduler          find_chunk_boundaries                  *)
(*   - the per-chunk worker         process_chunk                          *)
(*   - the single-threaded loop     convert_events + InputReader           *)
(*   - the date-partitioned sink    StorageManager                         *)
(*   - the merge stage              merge_protobuf_files_with_dedup        *)
(*                                                                         *)
(* An input file is a sequence of lines.  A line is kept by its length in  *)
(* bytes (terminator included) and by what the pipeline's stages see in    *)
(* it; byte offsets are computed from the lengths, so the scheduler's      *)
(* 8192-byte look-ahead is the program's own value.                       *)
(***************************************************************************)
EXTENDS Integers, Sequences, FiniteSets, TLC

\* ------------------------------------------------------------ bounds
\* lines of a file given to the scheduler / to a conversion run
MaxLines == 3
MaxConvLines == 2
MaxChunks == 3

\* ------------------------------------------------- program constants
\* main.rs:939  let mut byte_buf = vec![0u8; 8192];
LookAhead == 8192
\* validation.rs:79  kind in 0..=65535
MaxKind == 65535
\* chrono: seconds per UTC day (storage.rs:235 formats the UTC date)
SecondsPerDay == 86400

\* ------------------------------------------------------------ helpers
Min(a, b) == IF a <= b THEN a ELSE b

SetMin(S) == CHOOSE x \in S : \A y \in S : x <= y

RECURSIVE SumLen(_, _)
SumLen(lines, k) == IF k = 0 THEN 0 ELSE lines[k].len + SumLen(lines, k - 1)

\* Offset of the first byte of line k, and of the byte after its last one.
LineStart(f, k) == SumLen(f.lines, k - 1)
LineEnd(f, k) == SumLen(f.lines, k)

\* std::fs::metadata(path)?.len()
FileSize(f) == SumLen(f.lines, Len(f.lines))

\* Offsets of the b'\n' bytes of the file: the last byte of every line but an
\* unterminated last line.
NewlineOffsets(f) ==
    { LineEnd(f, k) - 1 : k \in { j \in 1..Len(f.lines) : j < Len(f.lines) \/ f.eofnl } }

\* ------------------------------------------------------- input lines
\* An event as the pipeline holds it after ProtoEvent::try_from: the wire
\* fields the later stages read.  id_matches / sig_verifies are what the
\* SHA-256 comparison and the Schnorr verification of that event yield.
NoEvent ==
    [id |-> 0, created_at |-> 0, kind |-> 0, hex_ok |-> FALSE,
     id_matches |-> FALSE, sig_verifies |-> FALSE]

\* hex_ok: id, pubkey and sig have the lengths and the charset
\* validate_basic_fields asks for (the parser re-encodes them, so they do).
Ev(id, ts, kind, idok, sigok) ==
    [id |-> id, created_at |-> ts, kind |-> kind, hex_ok |-> TRUE,
     id_matches |-> idok, sig_verifies |-> sigok]

\* TLC's integers are 32-bit: FarFuture stands for a created_at above the range
\* chrono's DateTime::from_timestamp accepts (it returns None there).
FarFuture == 2000000000

\* What a line holds:
\*   utf8      the bytes are valid UTF-8 (read_line fails otherwise)
\*   blank     line.trim().is_empty()
\*   kind_text the digits KIND_REGEX captures first (-1: no match)
\*   json      serde_json / nostr-sdk accept the line as an event object
\*   kind      the value of the JSON "kind" member
\*   ev        the event the parser builds (created_at after the `as i64` cast)
\* KIND_REGEX captures the first "kind": digits of the text, at any depth; the
\* parsers read the "kind" member of the top-level object and skip a member
\* they do not know.  Class "nested" is an event of kind 1 with a member ahead
\* of "kind" whose value is an object holding "kind": 70000.
\* A created_at of 2^63 or more comes out of the cast negative, and the hash of
\* the event then built differs from the id computed over the uncast value.
Line(len, cls, utf8, blank, kind_text, json, kind, ev) ==
    [len |-> len, cls |-> cls, utf8 |-> utf8, blank |-> blank,
     kind_text |-> kind_text, json |-> json, kind |-> kind, ev |-> ev]

LineOf(cls, len) ==
    CASE cls = "blank"    -> Line(len, cls, TRUE, TRUE, -1, FALSE, 0, NoEvent)
      [] cls = "badutf8"  -> Line(len, cls, FALSE, FALSE, -1, FALSE, 0, NoEvent)
      [] cls = "garbage"  -> Line(len, cls, TRUE, FALSE, -1, FALSE, 0, NoEvent)
      [] cls = "bigkind"  -> Line(len, cls, TRUE, FALSE, 70000, TRUE, 70000, NoEvent)
      [] cls = "negts"    -> Line(len, cls, TRUE, FALSE, 1, TRUE, 1, Ev(1, -1, 1, FALSE, TRUE))
      [] cls = "badid"    -> Line(len, cls, TRUE, FALSE, 1, TRUE, 1, Ev(2, 1000, 1, FALSE, TRUE))
      [] cls = "badsig"   -> Line(len, cls, TRUE, FALSE, 1, TRUE, 1, Ev(3, 1000, 1, TRUE, FALSE))
      [] cls = "far"      -> Line(len, cls, TRUE, FALSE, 1, TRUE, 1, Ev(4, FarFuture, 1, TRUE, TRUE))
      [] cls = "good"     -> Line(len, cls, TRUE, FALSE, 1, TRUE, 1, Ev(5, 1000, 1, TRUE, TRUE))
      [] cls = "good2"    -> Line(len, cls, TRUE, FALSE, 65535, TRUE, 65535, Ev(6, 1758960000, 65535, TRUE, TRUE))
      [] cls = "nested"   -> Line(len, cls, TRUE, FALSE, 70000, TRUE, 1, Ev(7, 1000, 1, TRUE, TRUE))

LineClasses ==
    {"blank", "badutf8", "garbage", "bigkind", "negts", "badid", "badsig", "far", "good", "good2",
     "nested"}

Range(s) == { s[k] : k \in DOMAIN s }

\* Sequences over S of length 0..n.
SeqsUpTo(S, n) == UNION { [1..k -> S] : k \in 0..n }

\* --------------------------------------------------- per-line stages
\* InputReader::has_valid_kind: no captured kind, or one that is <= 65535.
has_valid_kind(line) == line.kind_text = -1 \/ line.kind_text <= MaxKind

\* ProtoEvent::try_from(&str): the kind pre-check, then nostr-sdk's parser.
try_from_ok(line) == line.json /\ line.kind >= 0 /\ line.kind <= MaxKind

validate_basic_fields(ev) ==
    /\ ev.hex_ok
    /\ ev.created_at >= 0
    /\ ev.kind >= 0 /\ ev.kind <= MaxKind

\* compute_event_hash: serde_json::to_vec of strings and integers, then
\* SHA-256; neither step has a failing input.
compute_event_hash_ok(ev) == TRUE

validate_event_id_from_hash(ev) == ev.id_matches

validate_signature_from_hash(ev) == ev.sig_verifies

\* The stages with the signature check nested in the event-id check.
Stages_sig_inside_id(line, filter, vid, vsig) ==
    IF line.blank THEN "skipped"
    ELSE IF filter /\ ~has_valid_kind(line) THEN "filtered"
    ELSE IF ~try_from_ok(line) THEN "parse_error"
    ELSE IF ~validate_basic_fields(line.ev) THEN "validation_error"
    ELSE IF (vsig \/ vid) /\ ~compute_event_hash_ok(line.ev) THEN "hash_error"
    ELSE IF (vsig \/ vid) /\ vid /\ ~validate_event_id_from_hash(line.ev) THEN "id_mismatch"
    ELSE IF vid /\ vsig /\ ~validate_signature_from_hash(line.ev) THEN "sig_invalid"
    ELSE "store"

\* The stages with the hash and the event-id check ahead of the basic fields.
Stages_hash_before_basic(line, filter, vid, vsig) ==
    IF line.blank THEN "skipped"
    ELSE IF filter /\ ~has_valid_kind(line) THEN "filtered"
    ELSE IF ~try_from_ok(line) THEN "parse_error"
    ELSE IF (vsig \/ vid) /\ ~compute_event_hash_ok(line.ev) THEN "hash_error"
    ELSE IF (vsig \/ vid) /\ vid /\ ~validate_event_id_from_hash(line.ev) THEN "id_mismatch"
    ELSE IF ~validate_basic_fields(line.ev) THEN "validation_error"
    ELSE IF (vsig \/ vid) /\ vsig /\ ~validate_signature_from_hash(line.ev) THEN "sig_invalid"
    ELSE "store"

\* The loop body of process_chunk / convert_events from the blank check to the
\* call of store_event: the name of the stage that ends the line, or "store".
Stages(line, filter, vid, vsig) ==
    IF line.blank THEN "skipped"
    ELSE IF filter /\ ~has_valid_kind(line) THEN "filtered"
    ELSE IF ~try_from_ok(line) THEN "parse_error"
    ELSE IF ~validate_basic_fields(line.ev) THEN "validation_error"
    ELSE IF (vsig \/ vid) /\ ~compute_event_hash_ok(line.ev) THEN "hash_error"
    ELSE IF (vsig \/ vid) /\ vid /\ ~validate_event_id_from_hash(line.ev) THEN "id_mismatch"
    ELSE IF (vsig \/ vid) /\ vsig /\ ~validate_signature_from_hash(line.ev) THEN "sig_invalid"
    ELSE "store"

\* ------------------------------------------------------ storage sink
\* A path of the output tree: prefix is the worker id of a staging file
\* (thread_{id}_{date}.pb.gz.tmp) or NoPrefix for {date}.pb.gz.
NoPrefix == -1

\* Staging file names that do not tell the workers apart: every worker
\* appends to the one staging file of a date.
Path_shared_staging(prefix, day) == <<IF prefix = NoPrefix THEN NoPrefix ELSE 0, day>>

Path(prefix, day) == <<prefix, day>>

\* An artifact is the sequence of its gzip members, a member the sequence of
\* the frames written to it; a path with no file has no member.
FileAt(dsk, path) == IF path \in DOMAIN dsk THEN dsk[path] ELSE <<>>

\* StorageManager::get_date_string: None outside chrono's range, else the UTC
\* day of created_at.
date_ok(ev) == ev.created_at < FarFuture

\* A date key that is the day created_at ends in, counted from the next one.
get_date_string_next_day(ev) == (ev.created_at + SecondsPerDay - 1) \div SecondsPerDay

get_date_string(ev) == ev.created_at \div SecondsPerDay

\* datetime.format("%Y_%m_%d") of the date key: year, month and day of the
\* proleptic Gregorian calendar for a day counted from 1970-01-01.
date_string(day) ==
    LET z == day + 719468
        era == z \div 146097
        doe == z - era * 146097
        yoe == (doe - doe \div 1460 + doe \div 36524 - doe \div 146096) \div 365
        doy == doe - (365 * yoe + yoe \div 4 - yoe \div 100)
        mp == (5 * doy + 2) \div 153
        d == doy - (153 * mp + 2) \div 5 + 1
        m == IF mp < 10 THEN mp + 3 ELSE mp - 9
    IN  <<yoe + era * 400 + (IF m <= 2 THEN 1 ELSE 0), m, d>>

\* A prefixed sink whose file names do not hold the thread id.
EmptySink_one_prefix(prefix) ==
    [prefix |-> IF prefix = NoPrefix THEN NoPrefix ELSE 0, buffers |-> <<>>, writers |-> {}]

\* StorageManager::new (no prefix) and new_with_prefix (thread_{id}) with no
\* buffer and no writer.
EmptySink(prefix) == [prefix |-> prefix, buffers |-> <<>>, writers |-> {}]

BufferAt(sink, day) == IF day \in DOMAIN sink.buffers THEN sink.buffers[day] ELSE <<>>

\* Remove key `day` from a function.
Without(f, day) == [k \in DOMAIN f \ {day} |-> f[k]]

With(f, key, val) == [k \in DOMAIN f \cup {key} |-> IF k = key THEN val ELSE f[k]]

\* The last member of an artifact extended by the frames `evs`.
AppendFrames(members, evs) ==
    [members EXCEPT ![Len(members)] = members[Len(members)] \o evs]

\* StorageManager::flush_buffer under an I/O outcome `io`:
\*   -1   every call succeeds
\*   -2   create_writer fails
\*   k>=0 a write or the flush fails after k events of the buffer reached the file
\* The buffer leaves `buffers` first; the writer of a date is created once and
\* kept (create_writer opens in append mode: a new gzip member).
flush_buffer(sink, dsk, day, io) ==
    LET buf == BufferAt(sink, day)
        path == Path(sink.prefix, day)
        removed == [sink EXCEPT !.buffers = Without(sink.buffers, day)]
        opened == IF day \in sink.writers THEN FileAt(dsk, path)
                  ELSE Append(FileAt(dsk, path), <<>>)
        kept == [removed EXCEPT !.writers = sink.writers \cup {day}]
        n == IF io = -1 THEN Len(buf) ELSE io
    IN  IF buf = <<>> THEN [sink |-> removed, disk |-> dsk, ok |-> TRUE]
        ELSE IF io = -2 /\ day \notin sink.writers
             THEN [sink |-> removed, disk |-> dsk, ok |-> FALSE]
        ELSE [sink |-> kept,
              disk |-> With(dsk, path, AppendFrames(opened, SubSeq(buf, 1, Min(n, Len(buf))))),
              ok |-> io = -1]

\* A store_event that flushes once the buffer holds more than batch_size events.
store_event_flush_above(sink, dsk, ev, batch, io) ==
    IF ~date_ok(ev) THEN [sink |-> sink, disk |-> dsk, ok |-> FALSE]
    ELSE LET day == get_date_string(ev)
             pushed == [sink EXCEPT !.buffers = With(sink.buffers, day, Append(BufferAt(sink, day), ev))]
         IN  IF Len(pushed.buffers[day]) > batch
             THEN flush_buffer(pushed, dsk, day, io)
             ELSE [sink |-> pushed, disk |-> dsk, ok |-> TRUE]

\* StorageManager::store_event: Err when the date cannot be formatted, else
\* push and flush the date's buffer once it holds batch_size events.
store_event(sink, dsk, ev, batch, io) ==
    IF ~date_ok(ev) THEN [sink |-> sink, disk |-> dsk, ok |-> FALSE]
    ELSE LET day == get_date_string(ev)
             pushed == [sink EXCEPT !.buffers = With(sink.buffers, day, Append(BufferAt(sink, day), ev))]
         IN  IF Len(pushed.buffers[day]) >= batch
             THEN flush_buffer(pushed, dsk, day, io)
             ELSE [sink |-> pushed, disk |-> dsk, ok |-> TRUE]

RECURSIVE FlushDays(_, _, _)
\* flush_buffer, with every call succeeding, for each date of `days`.
FlushDays(sink, dsk, days) ==
    IF days = {} THEN [sink |-> sink, disk |-> dsk, ok |-> TRUE]
    ELSE LET d == CHOOSE x \in days : TRUE
             r == flush_buffer(sink, dsk, d, -1)
         IN  FlushDays(r.sink, r.disk, days \ {d})

NoDay == -1

\* StorageManager::flush: flush_buffer for each buffered date, in the map's
\* order, stopping at the first failure.  `plan` names the dates flushed before
\* the failing one, the failing date (NoDay: none fails) and its I/O outcome.
flush(sink, dsk, plan) ==
    IF plan.fail = NoDay THEN FlushDays(sink, dsk, DOMAIN sink.buffers)
    ELSE LET r == FlushDays(sink, dsk, plan.before)
         IN  flush_buffer(r.sink, r.disk, plan.fail, plan.io)

NoFault == [before |-> {}, fail |-> NoDay, io |-> -1]

\* The failing I/O outcomes of flush_buffer for a date whose buffer holds n
\* events: a write or flush error after 0..n of them reached the file, or
\* create_writer failing when the date has no writer yet.
IoFaultsOf(sink, day, n) == (0..n) \cup (IF day \in sink.writers THEN {} ELSE {-2})

\* The I/O outcomes a flush of `sink` can meet while `budget` faults remain.
FlushPlans(sink, budget) ==
    {NoFault} \cup
    IF budget = 0 THEN {}
    ELSE UNION { { [before |-> b, fail |-> d, io |-> k] :
                     b \in SUBSET (DOMAIN sink.buffers \ {d}),
                     k \in IoFaultsOf(sink, d, Len(sink.buffers[d])) } :
                 d \in DOMAIN sink.buffers }

\* The I/O outcomes of the flush_buffer call inside store_event(ev).
StoreIos(sink, ev, batch, budget) ==
    {-1} \cup
    IF budget = 0 \/ ~date_ok(ev) \/ Len(BufferAt(sink, get_date_string(ev))) + 1 < batch
    THEN {}
    ELSE IoFaultsOf(sink, get_date_string(ev), Len(BufferAt(sink, get_date_string(ev))) + 1)

\* A Drop that closes the writers and leaves the buffers as they are.
drop_without_flush(sink, dsk, plan) ==
    [sink |-> [sink EXCEPT !.writers = {}], disk |-> dsk]

\* impl Drop for StorageManager: flush() with its error only logged, then every
\* writer is drained (flushed and closed).
drop(sink, dsk, plan) ==
    LET r == flush(sink, dsk, plan)
    IN  [sink |-> [r.sink EXCEPT !.writers = {}], disk |-> r.disk]

\* ------------------------------------------------------------- state
VARIABLES
    file,            \* the input file: [lines, eofnl]
    opts,            \* the run's flags: num_threads, filter_invalid_kinds,
                     \*   validate_event_ids, validate_signatures, batch_size
    pc,              \* where the run is
    i,               \* find_chunk_boundaries: the loop index
    current_start,   \* find_chunk_boundaries: start of the next chunk
    boundaries,      \* find_chunk_boundaries: the chunks found so far
    wstate,          \* per worker: "run", "done" (Ok) or "failed" (Err)
    position,        \* per worker / reader: offset of the next byte to read
    log,             \* per worker / reader: what each read_line returned and
                     \*   how the line ended: [from, to, whole, outcome]
    stats,           \* total_lines, valid_events, invalid_events, skipped_lines
    sinks,           \* per worker / reader: its StorageManager
    disk,            \* path -> artifact
    io_faults        \* I/O failures injected so far

convVars ==
    <<file, opts, pc, i, current_start, boundaries, wstate, position, log,
      stats, sinks, disk, io_faults>>

\* -------------------------------------------------------- merge state
VARIABLES
    mpc,             \* where merge_protobuf_files_with_dedup is
    date_str,        \* the date it merges
    sources,         \* the staging paths it was given
    all_sources,     \* sources, then the final artifact when that exists
    idx,             \* index of the source being read (1-based)
    frame,           \* frames of that source read so far
    seen_ids,
    mstats,          \* event_count, duplicate_count, corrupted_events, source_errors
    unopened,        \* the sources File::open failed on in this merge
    pending,         \* merge_temp_files: the date groups not merged yet
    runs             \* per merge started: the final artifact before it, whether
                     \*   it returned Ok, and the statistics it returned

mergeVars ==
    <<mpc, date_str, sources, all_sources, idx, frame, seen_ids, mstats, unopened,
      pending, runs>>

\* ---------------------------------------------- core library state
VARIABLES
    cpc,             \* where the delimited-stream round trip is
    events,          \* the events given to write_events_delimited
    wire,            \* the bytes written
    written,         \* events written so far
    offset,          \* EventIterator: offset of its reader in the bytes
    items,           \* the items EventIterator has yielded
    ipc,             \* where the caller of EventIndex is
    table,           \* the committed rows of `events`: id -> EventRecord
    txn,             \* the rows as the open transaction sees them
    batch,           \* the argument of insert_batch
    bpos,            \* rows of the batch executed so far
    clock,           \* SystemTime::now() in seconds
    calls            \* the calls of insert / insert_batch: how many, and for
                     \*   the last one what it was given, the rows before
                     \*   it and what it returned

libVars ==
    <<cpc, events, wire, written, offset, items, ipc, table, txn, batch, bpos,
      clock, calls>>

\* No transaction is open.
NoTxn == <<"none">>

\* No call of the index yet.
NoCall == [n |-> 0, op |-> "none", arg |-> <<>>, before |-> <<>>, ok |-> TRUE]

\* The library state of a run that uses neither the round trip nor the index.
LibIdle ==
    /\ cpc = "idle"
    /\ events = <<>>
    /\ wire = <<>>
    /\ written = 0
    /\ offset = 0
    /\ items = <<>>
    /\ ipc = "idle"
    /\ table = <<>>
    /\ txn = NoTxn
    /\ batch = <<>>
    /\ bpos = 0
    /\ clock = 0
    /\ calls = NoCall

vars == <<convVars, mergeVars, libVars>>

MaxIoFaults == 1

\* -------------------------------------------------- chunk scheduler
chunk_size == FileSize(file) \div opts.num_threads

\* reader.read(&mut byte_buf) after the seek to `target`: up to 8192 bytes.
read_len(file_size, target) ==
    IF target >= file_size THEN 0 ELSE Min(LookAhead, file_size - target)

\* Offset in the buffer of its first b'\n', else bytes_read - 1.
newline_pos(f, target, bytes_read) ==
    LET found == { p \in NewlineOffsets(f) : p >= target /\ p < target + bytes_read }
    IN  IF found # {} THEN SetMin(found) - target ELSE bytes_read - 1

\* The sum without the seek target: an offset into the buffer.
chunk_end_in_buffer(target, npos) == npos + 1

chunk_end(target, npos) == target + npos + 1

\* A scheduler without the early return for an empty file: the loop gives
\* the last chunk (current_start, file_size) = (0, 0).
find_chunk_boundaries_no_early_return ==
    /\ pc = "plan"
    /\ LET file_size == FileSize(file)
           target == chunk_size * (i + 1)
           bytes_read == read_len(file_size, target)
           end == chunk_end(target, newline_pos(file, target, bytes_read))
       IN  IF i = opts.num_threads - 1
           THEN /\ boundaries' = Append(boundaries, <<current_start, file_size>>)
                /\ pc' = "spawn"
                /\ UNCHANGED <<i, current_start>>
           ELSE IF bytes_read = 0
           THEN /\ pc' = "panic"
                /\ UNCHANGED <<i, current_start, boundaries>>
           ELSE /\ boundaries' = Append(boundaries, <<current_start, end>>)
                /\ current_start' = end
                /\ i' = i + 1
                /\ pc' = pc
    /\ UNCHANGED <<file, opts, wstate, position, log, stats, sinks, disk, io_faults>>
    /\ UNCHANGED mergeVars
    /\ UNCHANGED libVars

\* One pass of the body of `for i in 0..num_chunks` (file_size == 0 returns
\* the empty vector before the loop).
find_chunk_boundaries ==
    /\ pc = "plan"
    /\ LET file_size == FileSize(file)
           target == chunk_size * (i + 1)
           bytes_read == read_len(file_size, target)
           end == chunk_end(target, newline_pos(file, target, bytes_read))
       IN  IF file_size = 0
           THEN /\ pc' = "spawn"
                /\ UNCHANGED <<i, current_start, boundaries>>
           ELSE IF i = opts.num_threads - 1
           THEN /\ boundaries' = Append(boundaries, <<current_start, file_size>>)
                /\ pc' = "spawn"
                /\ UNCHANGED <<i, current_start>>
           ELSE IF bytes_read = 0
           THEN \* bytes_read - 1 underflows usize
                /\ pc' = "panic"
                /\ UNCHANGED <<i, current_start, boundaries>>
           ELSE /\ boundaries' = Append(boundaries, <<current_start, end>>)
                /\ current_start' = end
                /\ i' = i + 1
                /\ pc' = pc
    /\ UNCHANGED <<file, opts, wstate, position, log, stats, sinks, disk, io_faults>>
    /\ UNCHANGED mergeVars
    /\ UNCHANGED libVars

\* ------------------------------------------------------------ workers
Workers == 0..(Len(boundaries) - 1)

chunk_start(w) == boundaries[w + 1][1]

chunk_stop(w) == boundaries[w + 1][2]

\* rayon::scope: one task per chunk; each opens the file, seeks to its start
\* and creates its StorageManager with the prefix thread_{id}.
spawn_workers ==
    /\ pc = "spawn"
    /\ pc' = "workers"
    /\ wstate' = [w \in Workers |-> "run"]
    /\ position' = [w \in Workers |-> chunk_start(w)]
    /\ log' = [w \in Workers |-> <<>>]
    /\ sinks' = [w \in Workers |-> EmptySink(w)]
    /\ UNCHANGED <<file, opts, i, current_start, boundaries, stats, disk, io_faults>>
    /\ UNCHANGED mergeVars
    /\ UNCHANGED libVars

\* The line of the file that holds byte offset p.
LineAt(f, p) == CHOOSE k \in 1..Len(f.lines) : LineStart(f, k) <= p /\ p < LineEnd(f, k)

\* What read_line returns from offset p: the bytes up to the end of the line
\* that holds p.  From the first byte of a line that is the line; from inside
\* a line it is the line's tail, which is blank when it is only the terminator
\* or the line is blank, and else is no JSON object (and is not valid UTF-8
\* when the cut falls inside a multi-byte character).
ReadLine(f, p) ==
    LET k == LineAt(f, p)
        ln == f.lines[k]
        n == LineEnd(f, k) - p
    IN  IF p = LineStart(f, k) THEN {ln}
        ELSE IF ln.blank \/ (n = 1 /\ (k < Len(f.lines) \/ f.eofnl))
             THEN {LineOf("blank", n)}
        ELSE {LineOf("garbage", n), LineOf("badutf8", n)}

Entry(p, text, whole, outcome) ==
    [from |-> p, to |-> p + text.len, whole |-> whole, outcome |-> outcome]

Bump(st, field) == [st EXCEPT ![field] = @ + 1]

\* Counters in which a failed store_event is not counted.
count_parallel_no_storage_error(st, outcome) ==
    LET t == Bump(st, "total_lines")
    IN  CASE outcome = "skipped"  -> Bump(t, "skipped_lines")
          [] outcome = "filtered" -> t
          [] outcome = "stored"   -> Bump(t, "valid_events")
          [] outcome = "storage_error" -> t
          [] OTHER                -> Bump(t, "invalid_events")

\* The counters after a line of a parallel worker: total_lines always, then
\* skipped_lines, invalid_events or valid_events by how the line ended; a
\* prefiltered line adds to the worker's own filtered_count only.
count_parallel(st, outcome) ==
    LET t == Bump(st, "total_lines")
    IN  CASE outcome = "skipped"  -> Bump(t, "skipped_lines")
          [] outcome = "filtered" -> t
          [] outcome = "stored"   -> Bump(t, "valid_events")
          [] OTHER                -> Bump(t, "invalid_events")

Budget == MaxIoFaults - io_faults

Spent(plan) == IF plan = NoFault THEN 0 ELSE 1

\* One pass of `while position < end` in process_chunk: read a line, count it,
\* run the stages, store.  A read_line error leaves the function through `?`,
\* which drops the worker's StorageManager.
process_chunk(w) ==
    /\ pc = "workers"
    /\ wstate[w] = "run"
    /\ position[w] < chunk_stop(w)
    /\ position[w] < FileSize(file)
    /\ \E text \in ReadLine(file, position[w]) :
         LET p == position[w]
             whole == p = LineStart(file, LineAt(file, p))
             stage == Stages(text, opts.filter_invalid_kinds,
                             opts.validate_event_ids, opts.validate_signatures)
         IN  IF ~text.utf8
             THEN \E plan \in FlushPlans(sinks[w], Budget) :
                    LET d == drop(sinks[w], disk, plan)
                    IN  /\ wstate' = [wstate EXCEPT ![w] = "failed"]
                        /\ sinks' = [sinks EXCEPT ![w] = d.sink]
                        /\ disk' = d.disk
                        /\ io_faults' = io_faults + Spent(plan)
                        /\ log' = [log EXCEPT ![w] = Append(@, Entry(p, text, whole, "read_error"))]
                        /\ UNCHANGED <<position, stats>>
             ELSE IF stage # "store"
             THEN /\ position' = [position EXCEPT ![w] = p + text.len]
                  /\ log' = [log EXCEPT ![w] = Append(@, Entry(p, text, whole, stage))]
                  /\ stats' = count_parallel(stats, stage)
                  /\ UNCHANGED <<wstate, sinks, disk, io_faults>>
             ELSE \E io \in StoreIos(sinks[w], text.ev, opts.batch_size, Budget) :
                    LET r == store_event(sinks[w], disk, text.ev, opts.batch_size, io)
                        outcome == IF r.ok THEN "stored" ELSE "storage_error"
                    IN  /\ position' = [position EXCEPT ![w] = p + text.len]
                        /\ log' = [log EXCEPT ![w] = Append(@, Entry(p, text, whole, outcome))]
                        /\ stats' = count_parallel(stats, outcome)
                        /\ sinks' = [sinks EXCEPT ![w] = r.sink]
                        /\ disk' = r.disk
                        /\ io_faults' = io_faults + (IF io = -1 THEN 0 ELSE 1)
                        /\ UNCHANGED wstate
    /\ UNCHANGED <<file, opts, pc, i, current_start, boundaries>>
    /\ UNCHANGED mergeVars
    /\ UNCHANGED libVars

\* The end of process_chunk: storage.flush()? and Ok(stats), or Err when the
\* flush fails; the StorageManager is dropped on both paths.
process_chunk_end(w) ==
    /\ pc = "workers"
    /\ wstate[w] = "run"
    /\ ~(position[w] < chunk_stop(w) /\ position[w] < FileSize(file))
    /\ \E plan \in FlushPlans(sinks[w], Budget) :
         LET r == flush(sinks[w], disk, plan)
         IN  \E again \in FlushPlans(r.sink, Budget - Spent(plan)) :
               LET d == drop(r.sink, r.disk, again)
               IN  /\ wstate' = [wstate EXCEPT ![w] = IF r.ok THEN "done" ELSE "failed"]
                   /\ sinks' = [sinks EXCEPT ![w] = d.sink]
                   /\ disk' = d.disk
                   /\ io_faults' = io_faults + Spent(plan) + Spent(again)
    /\ UNCHANGED <<file, opts, pc, i, current_start, boundaries, position, log, stats>>
    /\ UNCHANGED mergeVars
    /\ UNCHANGED libVars

\* A scope that ends when its first task has returned.
join_workers_after_first ==
    /\ pc = "workers"
    /\ \E w \in Workers : wstate[w] # "run"
    /\ pc' = IF \E w \in Workers : wstate[w] = "failed" THEN "failed" ELSE "merge"
    /\ UNCHANGED <<file, opts, i, current_start, boundaries, wstate, position, log,
                   stats, sinks, disk, io_faults>>
    /\ UNCHANGED mergeVars
    /\ UNCHANGED libVars

\* A scope that ends as soon as one task has returned Err.
join_workers_on_first_error ==
    /\ pc = "workers"
    /\ \/ \A w \in Workers : wstate[w] # "run"
       \/ \E w \in Workers : wstate[w] = "failed"
    /\ pc' = IF \E w \in Workers : wstate[w] = "failed" THEN "failed" ELSE "merge"
    /\ UNCHANGED <<file, opts, i, current_start, boundaries, wstate, position, log,
                   stats, sinks, disk, io_faults>>
    /\ UNCHANGED mergeVars
    /\ UNCHANGED libVars

\* A join that goes on to the merge stage whatever the workers returned.
join_workers_ignore_errors ==
    /\ pc = "workers"
    /\ \A w \in Workers : wstate[w] # "run"
    /\ pc' = "merge"
    /\ UNCHANGED <<file, opts, i, current_start, boundaries, wstate, position, log,
                   stats, sinks, disk, io_faults>>
    /\ UNCHANGED mergeVars
    /\ UNCHANGED libVars

\* The end of rayon::scope: every task has returned.  Any worker error makes
\* convert_events_parallel return Err before the merge stage.
join_workers ==
    /\ pc = "workers"
    /\ \A w \in Workers : wstate[w] # "run"
    /\ pc' = IF \E w \in Workers : wstate[w] = "failed" THEN "failed" ELSE "merge"
    /\ UNCHANGED <<file, opts, i, current_start, boundaries, wstate, position, log,
                   stats, sinks, disk, io_faults>>
    /\ UNCHANGED mergeVars
    /\ UNCHANGED libVars

\* --------------------------------------------------- single-threaded
\* The counters of convert_events after a line its reader yielded.
count_single(st, outcome) ==
    LET t == Bump(st, "total_lines")
    IN  CASE outcome = "skipped"    -> Bump(t, "skipped_lines")
          [] outcome = "read_error" -> Bump(t, "skipped_lines")
          [] outcome = "stored"     -> Bump(t, "valid_events")
          [] OTHER                  -> Bump(t, "invalid_events")

\* One line of the input in convert_events.  InputReader::next consumes a
\* prefiltered line without yielding it (filtered_count only); a read error is
\* yielded and counted as skipped; the other lines run the stages.
convert_events ==
    /\ pc = "single"
    /\ position[0] < FileSize(file)
    /\ LET p == position[0]
           text == file.lines[LineAt(file, p)]
           stage == Stages(text, opts.filter_invalid_kinds,
                           opts.validate_event_ids, opts.validate_signatures)
       IN  /\ position' = [position EXCEPT ![0] = p + text.len]
           /\ IF ~text.utf8
              THEN /\ log' = [log EXCEPT ![0] = Append(@, Entry(p, text, TRUE, "read_error"))]
                   /\ stats' = count_single(stats, "read_error")
                   /\ UNCHANGED <<sinks, disk, io_faults>>
              ELSE IF stage = "filtered"
              THEN /\ log' = [log EXCEPT ![0] = Append(@, Entry(p, text, TRUE, stage))]
                   /\ UNCHANGED <<stats, sinks, disk, io_faults>>
              ELSE IF stage # "store"
              THEN /\ log' = [log EXCEPT ![0] = Append(@, Entry(p, text, TRUE, stage))]
                   /\ stats' = count_single(stats, stage)
                   /\ UNCHANGED <<sinks, disk, io_faults>>
              ELSE \E io \in StoreIos(sinks[0], text.ev, opts.batch_size, Budget) :
                     LET r == store_event(sinks[0], disk, text.ev, opts.batch_size, io)
                         outcome == IF r.ok THEN "stored" ELSE "storage_error"
                     IN  /\ log' = [log EXCEPT ![0] = Append(@, Entry(p, text, TRUE, outcome))]
                         /\ stats' = count_single(stats, outcome)
                         /\ sinks' = [sinks EXCEPT ![0] = r.sink]
                         /\ disk' = r.disk
                         /\ io_faults' = io_faults + (IF io = -1 THEN 0 ELSE 1)
    /\ UNCHANGED <<file, opts, pc, i, current_start, boundaries, wstate>>
    /\ UNCHANGED mergeVars
    /\ UNCHANGED libVars

\* The end of convert_events: storage.flush()? (Err drops the StorageManager
\* and returns), the summary, then std::process::exit(1) when no event was
\* valid (no destructor runs) or Ok(()) and the drop.
convert_events_end ==
    /\ pc = "single"
    /\ position[0] >= FileSize(file)
    /\ \E plan \in FlushPlans(sinks[0], Budget) :
         LET r == flush(sinks[0], disk, plan)
             exits == r.ok /\ stats.valid_events = 0 /\ stats.total_lines > 0
         IN  \E again \in FlushPlans(r.sink, Budget - Spent(plan)) :
               LET d == IF exits THEN [sink |-> r.sink, disk |-> r.disk]
                        ELSE drop(r.sink, r.disk, again)
               IN  /\ exits => again = NoFault
                   /\ pc' = IF ~r.ok THEN "failed" ELSE IF exits THEN "exit1" ELSE "done"
                   /\ sinks' = [sinks EXCEPT ![0] = d.sink]
                   /\ disk' = d.disk
                   /\ io_faults' = io_faults + Spent(plan) + Spent(again)
    /\ UNCHANGED <<file, opts, i, current_start, boundaries, wstate, position, log, stats>>
    /\ UNCHANGED mergeVars
    /\ UNCHANGED libVars

ZeroMergeStats ==
    [event_count |-> 0, duplicate_count |-> 0, corrupted_events |-> 0, source_errors |-> 0]

MergeIdle ==
    /\ mpc = "idle"
    /\ date_str = 0
    /\ sources = <<>>
    /\ all_sources = <<>>
    /\ idx = 0
    /\ frame = 0
    /\ seen_ids = {}
    /\ mstats = ZeroMergeStats
    /\ unopened = {}
    /\ pending = {}
    /\ runs = <<>>

\* ------------------------------------------------- conversion specs
ZeroStats == [total_lines |-> 0, valid_events |-> 0, invalid_events |-> 0, skipped_lines |-> 0]

Nobody == [w \in {} |-> 0]

\* Line lengths in bytes, terminator included: short lines and lines longer
\* than the scheduler's look-ahead buffer.  A file that is one line of 16386
\* bytes has its terminator at the first offset past the look-ahead buffer of
\* a split in two.
LineLens == {2, 3, 9000, 16386, 20000}

ShortLen == 2

MaxBatch == 2

\* A call of convert_events_parallel(input, num_threads >= 1, ...) on a file
\* of JSON lines of any of the lengths above, with or without a final
\* terminator.
InitPlan ==
    /\ \E lens \in SeqsUpTo(LineLens, MaxLines), nl \in BOOLEAN :
         /\ (lens = <<>> => nl)
         /\ file = [lines |-> [k \in 1..Len(lens) |-> LineOf("good", lens[k])], eofnl |-> nl]
    /\ \E n \in 1..MaxChunks :
         opts = [num_threads |-> n, filter_invalid_kinds |-> FALSE,
                 validate_event_ids |-> FALSE, validate_signatures |-> FALSE,
                 batch_size |-> MaxBatch]
    /\ pc = "plan"
    /\ i = 0
    /\ current_start = 0
    /\ boundaries = <<>>
    /\ wstate = Nobody
    /\ position = Nobody
    /\ log = Nobody
    /\ sinks = Nobody
    /\ stats = ZeroStats
    /\ disk = <<>>
    /\ io_faults = 0
    /\ MergeIdle
    /\ LibIdle

\* `proton-beam convert`: main runs convert_events_parallel when
\* num_threads > 1 and convert_events otherwise, on a file of short lines of
\* every kind.
Init ==
    /\ \E cls \in SeqsUpTo(LineClasses, MaxConvLines) :
         file = [lines |-> [k \in 1..Len(cls) |-> LineOf(cls[k], ShortLen)], eofnl |-> TRUE]
    /\ \E n \in 1..MaxChunks, f \in BOOLEAN, vid \in BOOLEAN, vsig \in BOOLEAN, b \in 1..MaxBatch :
         opts = [num_threads |-> n, filter_invalid_kinds |-> f,
                 validate_event_ids |-> vid, validate_signatures |-> vsig,
                 batch_size |-> b]
    /\ pc = IF opts.num_threads > 1 THEN "plan" ELSE "single"
    /\ i = 0
    /\ current_start = 0
    /\ boundaries = <<>>
    /\ wstate = Nobody
    /\ position = IF opts.num_threads > 1 THEN Nobody ELSE [w \in {0} |-> 0]
    /\ log = IF opts.num_threads > 1 THEN Nobody ELSE [w \in {0} |-> <<>>]
    /\ sinks = IF opts.num_threads > 1 THEN Nobody ELSE [w \in {0} |-> EmptySink(NoPrefix)]
    /\ stats = ZeroStats
    /\ disk = <<>>
    /\ io_faults = 0
    /\ MergeIdle
    /\ LibIdle

NextParallel ==
    \/ find_chunk_boundaries
    \/ spawn_workers
    \/ \E w \in Workers : process_chunk(w)
    \/ \E w \in Workers : process_chunk_end(w)
    \/ join_workers

NextSingle ==
    \/ convert_events
    \/ convert_events_end

Next == NextParallel \/ NextSingle

SpecPlan == InitPlan /\ [][NextParallel]_vars

Spec == Init /\ [][Next]_vars

\* ------------------------------------------------------------- merge
\* {date}.pb.gz in the output directory.
final_file(day) == Path(NoPrefix, day)

\* An output written in place, at the path of the final artifact.
temp_output_in_place(day) == Path(NoPrefix, day)

\* {date}.pb.gz.tmp in the output directory.
temp_output(day) == Path(NoPrefix - 1, day)

\* Frames no encoder writes, left by damage to a file:
\*   BadFrame    a whole frame whose payload is no ProtoEvent
\*   CutPayload  the stream ends inside a payload
\*   CutPrefix   the stream ends inside a length prefix
BadFrame == [NoEvent EXCEPT !.id = -1]

CutPayload == [NoEvent EXCEPT !.id = -2]

CutPrefix == [NoEvent EXCEPT !.id = -3]

\* A place of the stream where the reader's read fails with an error other
\* than UnexpectedEof (damaged deflate data under the GzDecoder, a failing
\* device): read_varint returns the error before a byte is consumed, so the
\* next read meets the same place.
ReadFault == [NoEvent EXCEPT !.id = -4]

MaxCorrupted == 3

\* create_gzip_decoder is GzDecoder::new: it decodes the first gzip member of
\* the file and reports end of stream after it.
create_gzip_decoder(art) == IF art = <<>> THEN <<>> ELSE art[1]

\* EventIterator::next at frame n of a stream: None at the end of the stream
\* or when read_varint meets UnexpectedEof, Some(Err) when read_varint fails
\* with any other error, or when read_exact or the decoding of the payload
\* fails, else Some(Ok(event)).
next(stream, n) ==
    IF n > Len(stream) \/ stream[n] = CutPrefix THEN "none"
    ELSE IF stream[n] \in {CutPayload, BadFrame, ReadFault} THEN "err"
    ELSE "ok"

\* The place of the reader after the item at frame n: an item whose bytes
\* were read is behind the reader, a failed read of the length is not.
reader_after(stream, n) == IF stream[n] = ReadFault THEN n ELSE n + 1

\* The all_sources that never holds the final file.
all_sources_of_staging_only(srcs, final, exists) == srcs

\* let mut all_sources = sources.to_vec(); the final file is pushed when it
\* exists.
all_sources_of(srcs, final, exists) == IF exists THEN Append(srcs, final) ELSE srcs

\* A seen-set that outlives the call.
new_seen_ids_kept(old) == old

\* let mut seen_ids = HashSet::new().
new_seen_ids(old) == {}

\* An insert that records nothing.
insert_nothing(seen, ev) == seen

\* seen_ids.insert(event.id.clone()).
insert(seen, ev) == seen \cup {ev.id}

\* Counters where a duplicate is not counted.
count_frame_no_duplicates(st, what) ==
    CASE what = "corrupted" -> Bump(st, "corrupted_events")
      [] what = "duplicate" -> st
      [] what = "written"   -> Bump(st, "event_count")

\* The counters after a frame that was corrupted, a duplicate or written.
count_frame(st, what) ==
    CASE what = "corrupted" -> Bump(st, "corrupted_events")
      [] what = "duplicate" -> Bump(st, "duplicate_count")
      [] what = "written"   -> Bump(st, "event_count")

\* corrupted_events += 1 for an error item of a reader that stays where it
\* is: the counter is a u64 that wraps around in a release build, kept here
\* in 0..MaxCorrupted.
count_read_fault(st) ==
    [st EXCEPT !.corrupted_events = (@ + 1) % (MaxCorrupted + 1)]

MaxRuns == 2

\* The start of merge_protobuf_files_with_dedup(sources, output_dir, date_str)
\* for the date `day` and the staging files `srcs`: all_sources,
\* File::create(&temp_output)? and the empty seen-set and counters.
merge_call(day, srcs) ==
    LET final == final_file(day)
        started == Append(runs, [date |-> day,
                                 final |-> FileAt(disk, final),
                                 existed |-> final \in DOMAIN disk,
                                 ok |-> FALSE, stats |-> ZeroMergeStats])
    IN  /\ all_sources' = all_sources_of(srcs, final, final \in DOMAIN disk)
        /\ runs' = started
        /\ seen_ids' = new_seen_ids(seen_ids)
        /\ mstats' = ZeroMergeStats
        /\ unopened' = {}
        /\ idx' = 1
        /\ frame' = 0
        /\ \/ /\ disk' = With(disk, temp_output(day), << <<>> >>)
              /\ mpc' = "open"
              /\ UNCHANGED io_faults
           \/ /\ Budget > 0
              /\ io_faults' = io_faults + 1
              /\ mpc' = "failed"
              /\ UNCHANGED disk

\* `proton-beam merge` run (again) on a temp directory that holds the staging
\* files of one date.
merge_begin ==
    /\ pc = "merge_cmd"
    /\ mpc \in {"idle", "done", "failed"}
    /\ Len(runs) < MaxRuns
    /\ merge_call(date_str, sources)
    /\ UNCHANGED <<file, opts, pc, i, current_start, boundaries, wstate, position,
                   log, stats, sinks>>
    /\ UNCHANGED <<date_str, sources, pending>>
    /\ UNCHANGED libVars

\* A merge whose loop over the sources ends at the first source that cannot
\* be opened.
merge_open_source_or_stop ==
    /\ mpc = "open"
    /\ \/ /\ mpc' = "read"
          /\ frame' = 1
          /\ UNCHANGED <<idx, mstats, unopened, io_faults>>
       \/ /\ Budget > 0
          /\ io_faults' = io_faults + 1
          /\ mstats' = Bump(mstats, "source_errors")
          /\ unopened' = unopened \cup {all_sources[idx]}
          /\ idx' = idx + 1
          /\ mpc' = "finish"
          /\ UNCHANGED frame
    /\ UNCHANGED <<file, opts, pc, i, current_start, boundaries, wstate, position,
                   log, stats, sinks, disk>>
    /\ UNCHANGED <<date_str, sources, all_sources, seen_ids, pending, runs>>
    /\ UNCHANGED libVars

\* File::open(source) for the next source: a failure is counted and the
\* source skipped.
merge_open_source ==
    /\ mpc = "open"
    /\ \/ /\ mpc' = "read"
          /\ frame' = 1
          /\ UNCHANGED <<idx, mstats, unopened, io_faults>>
       \/ /\ Budget > 0
          /\ io_faults' = io_faults + 1
          /\ mstats' = Bump(mstats, "source_errors")
          /\ unopened' = unopened \cup {all_sources[idx]}
          /\ idx' = idx + 1
          /\ mpc' = IF idx + 1 > Len(all_sources) THEN "finish" ELSE "open"
          /\ UNCHANGED frame
    /\ UNCHANGED <<file, opts, pc, i, current_start, boundaries, wstate, position,
                   log, stats, sinks, disk>>
    /\ UNCHANGED <<date_str, sources, all_sources, seen_ids, pending, runs>>
    /\ UNCHANGED libVars

\* One item of read_events_delimited(gz) in the loop over a source: an error
\* item is counted as corrupted and the loop goes on, an event whose id is in
\* seen_ids is a duplicate, any other event is written to the output.
merge_read_frame ==
    /\ mpc = "read"
    /\ LET stream == create_gzip_decoder(FileAt(disk, all_sources[idx]))
           item == next(stream, frame)
           event == stream[frame]
           out == temp_output(date_str)
       IN  IF item = "none"
           THEN /\ idx' = idx + 1
                /\ mpc' = IF idx + 1 > Len(all_sources) THEN "finish" ELSE "open"
                /\ UNCHANGED <<frame, seen_ids, mstats, disk, io_faults>>
           ELSE IF item = "err"
           THEN /\ mstats' = IF event = ReadFault THEN count_read_fault(mstats)
                               ELSE count_frame(mstats, "corrupted")
                /\ frame' = reader_after(stream, frame)
                /\ UNCHANGED <<idx, mpc, seen_ids, disk, io_faults>>
           ELSE IF event.id \in seen_ids
           THEN /\ seen_ids' = insert(seen_ids, event)
                /\ mstats' = count_frame(mstats, "duplicate")
                /\ frame' = frame + 1
                /\ UNCHANGED <<idx, mpc, disk, io_faults>>
           ELSE /\ seen_ids' = insert(seen_ids, event)
                /\ \/ /\ disk' = With(disk, out, AppendFrames(disk[out], <<event>>))
                      /\ mstats' = count_frame(mstats, "written")
                      /\ frame' = frame + 1
                      /\ UNCHANGED <<idx, mpc, io_faults>>
                   \/ /\ Budget > 0
                      /\ io_faults' = io_faults + 1
                      /\ mpc' = "failed"
                      /\ UNCHANGED <<idx, frame, mstats, disk>>
    /\ UNCHANGED <<file, opts, pc, i, current_start, boundaries, wstate, position,
                   log, stats, sinks>>
    /\ UNCHANGED <<date_str, sources, all_sources, unopened, pending, runs>>
    /\ UNCHANGED libVars

\* The end of merge_protobuf_files_with_dedup: writer.flush()?, drop(writer),
\* std::fs::rename(&temp_output, &final_file)? and Ok(MergeStats).
merge_finish ==
    /\ mpc = "finish"
    /\ LET out == temp_output(date_str)
           final == final_file(date_str)
       IN  \/ /\ disk' = With(Without(disk, out), final, disk[out])
              /\ mpc' = "done"
              /\ runs' = [runs EXCEPT ![Len(runs)] = [@ EXCEPT !.ok = TRUE, !.stats = mstats]]
              /\ UNCHANGED io_faults
           \/ /\ Budget > 0
              /\ io_faults' = io_faults + 1
              /\ mpc' = "failed"
              /\ UNCHANGED <<disk, runs>>
    /\ UNCHANGED <<file, opts, pc, i, current_start, boundaries, wstate, position,
                   log, stats, sinks>>
    /\ UNCHANGED <<date_str, sources, all_sources, idx, frame, seen_ids, mstats, unopened,
                   pending>>
    /\ UNCHANGED libVars

\* The staging files of the temp directory: thread_{id}_{date}.pb.gz.tmp.
StagingPaths(dsk) == { p \in DOMAIN dsk : p[1] >= 0 }

\* extract_date_from_temp_filename over the temp directory: the keys of
\* files_by_date.
StagingDates(dsk) == { p[2] : p \in StagingPaths(dsk) }

\* The value of files_by_date for a date: its staging files in the order
\* read_dir listed them, which is any order.
StagingFiles(dsk, day) ==
    LET S == { p \in StagingPaths(dsk) : p[2] = day }
    IN  { f \in [1..Cardinality(S) -> S] : \A a, b \in DOMAIN f : f[a] = f[b] => a = b }

\* merge_temp_files up to its loop: read_dir(temp_dir)? and the grouping of
\* the *.tmp files by date.
merge_temp_files ==
    /\ pc = "merge"
    /\ \/ /\ pending' = StagingDates(disk)
          /\ pc' = "merging"
          /\ UNCHANGED io_faults
       \/ /\ Budget > 0
          /\ io_faults' = io_faults + 1
          /\ pc' = "failed"
          /\ UNCHANGED pending
    /\ UNCHANGED <<file, opts, i, current_start, boundaries, wstate, position, log,
                   stats, sinks, disk>>
    /\ UNCHANGED <<mpc, date_str, sources, all_sources, idx, frame, seen_ids, mstats,
                   unopened, runs>>
    /\ UNCHANGED libVars

\* A loop over the dates that returns the first error of a date's merge: the
\* dates not yet merged are abandoned.
merge_next_date_or_return ==
    /\ pc = "merging"
    /\ mpc \in {"idle", "done", "failed"}
    /\ pending # {}
    /\ IF mpc = "failed"
       THEN /\ pending' = {}
            /\ UNCHANGED <<mpc, date_str, sources, all_sources, idx, frame, seen_ids,
                           mstats, unopened, runs, disk, io_faults>>
       ELSE \E day \in pending :
              \E srcs \in StagingFiles(disk, day) :
                 /\ date_str' = day
                 /\ sources' = srcs
                 /\ pending' = pending \ {day}
                 /\ merge_call(day, srcs)
    /\ UNCHANGED <<file, opts, pc, i, current_start, boundaries, wstate, position,
                   log, stats, sinks>>
    /\ UNCHANGED libVars

\* One pass of `for (date, temp_files) in files_by_date`: the call of
\* merge_protobuf_files_with_dedup for the next date, whatever the call for
\* the date before returned.
merge_next_date ==
    /\ pc = "merging"
    /\ mpc \in {"idle", "done", "failed"}
    /\ \E day \in pending :
         \E srcs \in StagingFiles(disk, day) :
            /\ date_str' = day
            /\ sources' = srcs
            /\ pending' = pending \ {day}
            /\ merge_call(day, srcs)
    /\ UNCHANGED <<file, opts, pc, i, current_start, boundaries, wstate, position,
                   log, stats, sinks>>
    /\ UNCHANGED libVars

\* The end of convert_events_parallel: merge_temp_files returned Ok(()),
\* remove_dir_all(&temp_dir)?, the summary, and Err when no event was valid.
convert_events_parallel_end ==
    /\ pc = "merging"
    /\ mpc \in {"idle", "done", "failed"}
    /\ pending = {}
    /\ \/ /\ disk' = [p \in DOMAIN disk \ StagingPaths(disk) |-> disk[p]]
          /\ pc' = IF stats.valid_events = 0 /\ stats.total_lines > 0
                   THEN "failed" ELSE "done"
          /\ UNCHANGED io_faults
       \/ /\ Budget > 0
          /\ io_faults' = io_faults + 1
          /\ pc' = "failed"
          /\ UNCHANGED disk
    /\ UNCHANGED <<file, opts, i, current_start, boundaries, wstate, position, log,
                   stats, sinks>>
    /\ UNCHANGED mergeVars
    /\ UNCHANGED libVars

MaxFrames == 2

MaxSources == 2

\* Events of one date: two that share an id and differ in created_at, and one
\* with an id of its own.
MergeEvents == {Ev(1, 1000, 1, TRUE, TRUE), Ev(1, 2000, 1, TRUE, TRUE), Ev(2, 1000, 1, TRUE, TRUE)}

\* The first gzip member of an artifact: up to MaxFrames events, or fewer
\* followed by one damaged frame, or a BadFrame followed by an event.
FirstMembers ==
    SeqsUpTo(MergeEvents, MaxFrames)
      \cup { Append(m, d) : m \in SeqsUpTo(MergeEvents, MaxFrames - 1),
                            d \in {BadFrame, CutPayload, CutPrefix} }
      \cup { <<BadFrame, e>> : e \in MergeEvents }

\* An artifact: one gzip member, or two when a later sink appended to the
\* file (create_writer opens in append mode).
Artifacts ==
    { <<m>> : m \in FirstMembers }
      \cup { <<m, <<Ev(2, 1000, 1, TRUE, TRUE)>> >> : m \in SeqsUpTo(MergeEvents, MaxFrames - 1) }

\* `proton-beam merge`, or the merge step of convert_events_parallel, for one
\* date: one or two staging files of that date in the temp directory and
\* possibly a final artifact of an earlier run.
InitMerge ==
    /\ file = [lines |-> <<>>, eofnl |-> TRUE]
    /\ opts = [num_threads |-> MaxSources, filter_invalid_kinds |-> FALSE,
               validate_event_ids |-> FALSE, validate_signatures |-> FALSE,
               batch_size |-> MaxBatch]
    /\ pc = "merge_cmd"
    /\ i = 0
    /\ current_start = 0
    /\ boundaries = <<>>
    /\ wstate = Nobody
    /\ position = Nobody
    /\ log = Nobody
    /\ sinks = Nobody
    /\ stats = ZeroStats
    /\ io_faults = 0
    /\ date_str = 0
    /\ \E n \in 1..MaxSources :
         /\ sources = [w \in 1..n |-> Path(w - 1, date_str)]
         /\ \E first \in Artifacts,
               rest \in [2..n -> { <<m>> : m \in SeqsUpTo(MergeEvents, MaxFrames - 1) }],
               old \in Artifacts \cup {<<>>} :
              LET staged == [p \in Range(sources) |->
                               IF p = sources[1] THEN first ELSE rest[p[1] + 1]]
              IN  disk = IF old = <<>> THEN staged
                         ELSE With(staged, final_file(date_str), old)
    /\ mpc = "idle"
    /\ all_sources = <<>>
    /\ idx = 0
    /\ frame = 0
    /\ seen_ids = {}
    /\ mstats = ZeroMergeStats
    /\ unopened = {}
    /\ pending = {}
    /\ runs = <<>>
    /\ LibIdle

NextMerge ==
    \/ merge_begin
    \/ merge_open_source
    \/ merge_read_frame
    \/ merge_finish

SpecMerge == InitMerge /\ [][NextMerge]_vars

RECURSIVE StoreAll(_, _, _, _, _)
\* The loop of convert_events over lines k.. of an input with every call
\* succeeding, then storage.flush(): the sink and the output tree it leaves.
StoreAll(lines, k, o, sink, dsk) ==
    IF k > Len(lines) THEN flush(sink, dsk, NoFault)
    ELSE LET stage == Stages(lines[k], o.filter_invalid_kinds,
                             o.validate_event_ids, o.validate_signatures)
             r == store_event(sink, dsk, lines[k].ev, o.batch_size, -1)
         IN  IF lines[k].utf8 /\ stage = "store"
             THEN StoreAll(lines, k + 1, o, r.sink, r.disk)
             ELSE StoreAll(lines, k + 1, o, sink, dsk)

\* The output directory a single-threaded `proton-beam convert` of input f
\* with options o leaves when it starts from an empty one.
convert_events_output(f, o) == StoreAll(f.lines, 1, o, EmptySink(NoPrefix), <<>>).disk

\* A second `proton-beam convert` of the same input into the output directory
\* of a first, single-threaded one that ran with the same checks and any
\* batch size; the second run is in either mode.
InitAgain ==
    /\ \E cls \in SeqsUpTo(LineClasses, MaxConvLines) :
         file = [lines |-> [k \in 1..Len(cls) |-> LineOf(cls[k], ShortLen)], eofnl |-> TRUE]
    /\ \E n \in 1..MaxChunks, f \in BOOLEAN, vid \in BOOLEAN, vsig \in BOOLEAN, b \in 1..MaxBatch :
         opts = [num_threads |-> n, filter_invalid_kinds |-> f,
                 validate_event_ids |-> vid, validate_signatures |-> vsig,
                 batch_size |-> b]
    /\ pc = IF opts.num_threads > 1 THEN "plan" ELSE "single"
    /\ i = 0
    /\ current_start = 0
    /\ boundaries = <<>>
    /\ wstate = Nobody
    /\ position = IF opts.num_threads > 1 THEN Nobody ELSE [w \in {0} |-> 0]
    /\ log = IF opts.num_threads > 1 THEN Nobody ELSE [w \in {0} |-> <<>>]
    /\ sinks = IF opts.num_threads > 1 THEN Nobody ELSE [w \in {0} |-> EmptySink(NoPrefix)]
    /\ stats = ZeroStats
    /\ \E b1 \in 1..MaxBatch :
         disk = convert_events_output(file, [opts EXCEPT !.batch_size = b1])
    /\ io_faults = 0
    /\ MergeIdle
    /\ LibIdle

\* ------------------------------------------- length-delimited streams
\* A ProtoEvent on the wire: its id and the length in bytes of its protobuf
\* encoding.  The event with every field at its default encodes to no byte.
WireEvent(id, len) == [id |-> id, len |-> len]

DefaultEvent == WireEvent(0, 0)

\* Encoded lengths on both sides of the one-byte varint limit.
WireLens == {1, 127, 128, 200}

WireEvents == {DefaultEvent} \cup { WireEvent(id, len) : id \in {1, 2}, len \in WireLens }

\* event.encode(&mut buf.event_buf): the bytes of the encoding, which differ
\* between events and take every value of a byte.
encode(ev) == [k \in 1..ev.len |-> (ev.id * 100 + k) % 256]

\* ProtoEvent::decode: the event whose encoding the bytes are, or an error.
DecodeError == WireEvent(-1, 0)

decode(bytes) ==
    IF \E ev \in WireEvents : encode(ev) = bytes
    THEN CHOOSE ev \in WireEvents : encode(ev) = bytes
    ELSE DecodeError

RECURSIVE encode_varint(_)
\* prost::encoding::encode_varint: seven bits per byte, low bits first, the
\* high bit set on every byte but the last.
encode_varint(n) ==
    IF n < 128 THEN <<n>> ELSE <<(n % 128) + 128>> \o encode_varint(n \div 128)

\* write_event_delimited_with_buf: the varint of the encoded length, then the
\* encoding.
write_event_delimited(w, ev) == w \o encode_varint(Len(encode(ev))) \o encode(ev)

RECURSIVE read_varint_loop(_, _, _, _)
\* The loop of read_varint from offset `off`: [kind, value, offset], kind
\* "ok", "eof" (read_exact met the end of the data) or "invalid" (shift >= 64).
read_varint_loop(bytes, off, shift, result) ==
    IF off >= Len(bytes) THEN [kind |-> "eof", value |-> 0, offset |-> Len(bytes)]
    ELSE LET byte == bytes[off + 1]
             low == byte % 128
             sum == result + (IF low = 0 THEN 0 ELSE low * 2^shift)
         IN  IF byte < 128 THEN [kind |-> "ok", value |-> sum, offset |-> off + 1]
             ELSE IF shift + 7 >= 64 THEN [kind |-> "invalid", value |-> 0, offset |-> off + 1]
             ELSE read_varint_loop(bytes, off + 1, shift + 7, sum)

\* A read_varint that takes the first byte for the whole length.
read_varint_one_byte(bytes, off) ==
    IF off >= Len(bytes) THEN [kind |-> "eof", value |-> 0, offset |-> Len(bytes)]
    ELSE [kind |-> "ok", value |-> bytes[off + 1] % 128, offset |-> off + 1]

read_varint(bytes, off) == read_varint_loop(bytes, off, 0, 0)

\* EventIterator::next with its reader at offset `off`: the item ("none" for
\* None, "err" for Some(Err), "ok" for Some(Ok(event))) and the reader's offset
\* after the call.  A failed read_exact leaves the reader at the end.
EventIterator_next(bytes, off) ==
    LET length == read_varint(bytes, off)
        stop == length.offset + length.value
        event == decode(SubSeq(bytes, length.offset + 1, stop))
    IN  IF length.kind = "eof"
        THEN [item |-> "none", event |-> DecodeError, offset |-> length.offset]
        ELSE IF length.kind = "invalid"
        THEN [item |-> "err", event |-> DecodeError, offset |-> length.offset]
        ELSE IF stop > Len(bytes)
        THEN [item |-> "err", event |-> DecodeError, offset |-> Len(bytes)]
        ELSE IF event = DecodeError
        THEN [item |-> "err", event |-> DecodeError, offset |-> stop]
        ELSE [item |-> "ok", event |-> event, offset |-> stop]

\* One pass of the loop of write_events_delimited into a Vec<u8>.
write_events_delimited ==
    /\ cpc = "write"
    /\ written < Len(events)
    /\ wire' = write_event_delimited(wire, events[written + 1])
    /\ written' = written + 1
    /\ cpc' = IF written + 1 = Len(events) THEN "read" ELSE "write"
    /\ UNCHANGED <<events, offset, items>>
    /\ UNCHANGED <<ipc, table, txn, batch, bpos, clock, calls>>
    /\ UNCHANGED <<convVars, mergeVars>>

\* One call of next() on read_events_delimited(Cursor::new(buffer)) by a
\* consumer that reads until None.
read_events_delimited ==
    /\ cpc = "read"
    /\ LET r == EventIterator_next(wire, offset)
       IN  /\ offset' = r.offset
           /\ IF r.item = "none"
              THEN /\ cpc' = "end"
                   /\ UNCHANGED items
              ELSE /\ items' = Append(items, r.event)
                   /\ cpc' = "read"
    /\ UNCHANGED <<events, wire, written>>
    /\ UNCHANGED <<ipc, table, txn, batch, bpos, clock, calls>>
    /\ UNCHANGED <<convVars, mergeVars>>

MaxWireEvents == 2

\* The program state of a test of the core library: no conversion, no merge.
NoRun ==
    /\ file = [lines |-> <<>>, eofnl |-> TRUE]
    /\ opts = [num_threads |-> 1, filter_invalid_kinds |-> FALSE,
               validate_event_ids |-> FALSE, validate_signatures |-> FALSE,
               batch_size |-> 1]
    /\ pc = "lib"
    /\ i = 0
    /\ current_start = 0
    /\ boundaries = <<>>
    /\ wstate = Nobody
    /\ position = Nobody
    /\ log = Nobody
    /\ sinks = Nobody
    /\ stats = ZeroStats
    /\ disk = <<>>
    /\ io_faults = 0
    /\ MergeIdle

\* Any sequence of events written to a buffer and read back, as in
\* test_write_and_read_multiple_events and test_read_empty_stream.
InitStream ==
    /\ NoRun
    /\ events \in SeqsUpTo(WireEvents, MaxWireEvents)
    /\ cpc = IF events = <<>> THEN "read" ELSE "write"
    /\ wire = <<>>
    /\ written = 0
    /\ offset = 0
    /\ items = <<>>
    /\ ipc = "idle"
    /\ table = <<>>
    /\ txn = NoTxn
    /\ batch = <<>>
    /\ bpos = 0
    /\ clock = 0
    /\ calls = NoCall

NextStream ==
    \/ write_events_delimited
    \/ read_events_delimited

SpecStream == InitStream /\ [][NextStream]_vars

\* ------------------------------------------------------- event index
\* What insert binds of an event: id, kind, pubkey, created_at.  Two of the
\* events share an id and differ in every other column.
IndexEvent(id, kind, pubkey, created_at) ==
    [id |-> id, kind |-> kind, pubkey |-> pubkey, created_at |-> created_at]

IndexEvents ==
    {IndexEvent(1, 1, 1, 1000), IndexEvent(1, 7, 2, 2000), IndexEvent(2, 1, 1, 1000)}

\* file_path arguments: the artifacts of two dates.
FilePaths == {0, 1}

\* The row INSERT binds for (event, file_path) at time `now`.
EventRecord(ev, file_path, now) ==
    [id |-> ev.id, kind |-> ev.kind, pubkey |-> ev.pubkey, created_at |-> ev.created_at,
     file_path |-> file_path, indexed_at |-> now]

\* INSERT that overwrites the row of a primary key already present.
insert_or_replace(rows, ev, file_path, now) ==
    With(rows, ev.id, EventRecord(ev, file_path, now))

\* INSERT OR IGNORE INTO events ...: id is the primary key, and a row whose id
\* is present is ignored.
insert_or_ignore(rows, ev, file_path, now) ==
    IF ev.id \in DOMAIN rows THEN rows
    ELSE With(rows, ev.id, EventRecord(ev, file_path, now))

MaxCalls == 3

MaxBatchRows == 2

\* SystemTime::now() at a call: the clock has stood still or moved on.
Now == {clock, clock + 1}

\* EventIndex::insert: one statement in autocommit mode; an SQLite error is
\* returned as Err and leaves the rows as they were.
EventIndex_insert ==
    /\ ipc = "ready"
    /\ calls.n < MaxCalls
    /\ \E ev \in IndexEvents, file_path \in FilePaths, now \in Now :
         /\ clock' = now
         /\ \/ /\ table' = insert_or_ignore(table, ev, file_path, now)
               /\ calls' = [n |-> calls.n + 1, op |-> "insert", arg |-> <<ev>>,
                            before |-> table, ok |-> TRUE]
               /\ UNCHANGED io_faults
            \/ /\ Budget > 0
               /\ io_faults' = io_faults + 1
               /\ calls' = [n |-> calls.n + 1, op |-> "insert", arg |-> <<ev>>,
                            before |-> table, ok |-> FALSE]
               /\ UNCHANGED table
    /\ UNCHANGED <<ipc, txn, batch, bpos>>
    /\ UNCHANGED <<cpc, events, wire, written, offset, items>>
    /\ UNCHANGED <<file, opts, pc, i, current_start, boundaries, wstate, position, log,
                   stats, sinks, disk>>
    /\ UNCHANGED mergeVars

\* The start of EventIndex::insert_batch: self.conn.transaction()? and the
\* time of the call.
insert_batch_begin ==
    /\ ipc = "ready"
    /\ calls.n < MaxCalls
    /\ \E rows \in SeqsUpTo(IndexEvents \X FilePaths, MaxBatchRows), now \in Now :
         /\ clock' = now
         /\ batch' = rows
         /\ bpos' = 0
         /\ \/ /\ txn' = table
               /\ ipc' = "batch"
               /\ calls' = [n |-> calls.n + 1, op |-> "insert_batch", arg |-> rows,
                            before |-> table, ok |-> FALSE]
               /\ UNCHANGED io_faults
            \/ /\ Budget > 0
               /\ io_faults' = io_faults + 1
               /\ calls' = [n |-> calls.n + 1, op |-> "insert_batch", arg |-> rows,
                            before |-> table, ok |-> FALSE]
               /\ UNCHANGED <<txn, ipc>>
    /\ UNCHANGED table
    /\ UNCHANGED <<cpc, events, wire, written, offset, items>>
    /\ UNCHANGED <<file, opts, pc, i, current_start, boundaries, wstate, position, log,
                   stats, sinks, disk>>
    /\ UNCHANGED mergeVars

\* A loop whose statements run in autocommit mode: each row is visible as
\* soon as it is executed.
insert_batch_execute_autocommit ==
    /\ ipc = "batch"
    /\ bpos < Len(batch)
    /\ \/ /\ txn' = insert_or_ignore(txn, batch[bpos + 1][1], batch[bpos + 1][2], clock)
          /\ table' = insert_or_ignore(table, batch[bpos + 1][1], batch[bpos + 1][2], clock)
          /\ bpos' = bpos + 1
          /\ UNCHANGED <<ipc, io_faults>>
       \/ /\ Budget > 0
          /\ io_faults' = io_faults + 1
          /\ txn' = NoTxn
          /\ ipc' = "ready"
          /\ UNCHANGED <<bpos, table>>
    /\ UNCHANGED <<batch, clock, calls>>
    /\ UNCHANGED <<cpc, events, wire, written, offset, items>>
    /\ UNCHANGED <<file, opts, pc, i, current_start, boundaries, wstate, position, log,
                   stats, sinks, disk>>
    /\ UNCHANGED mergeVars

\* One stmt.execute of the loop of insert_batch, inside the transaction; an
\* error leaves through `?`, and dropping the Transaction rolls it back.
insert_batch_execute ==
    /\ ipc = "batch"
    /\ bpos < Len(batch)
    /\ \/ /\ txn' = insert_or_ignore(txn, batch[bpos + 1][1], batch[bpos + 1][2], clock)
          /\ bpos' = bpos + 1
          /\ UNCHANGED <<ipc, io_faults>>
       \/ /\ Budget > 0
          /\ io_faults' = io_faults + 1
          /\ txn' = NoTxn
          /\ ipc' = "ready"
          /\ UNCHANGED bpos
    /\ UNCHANGED <<table, batch, clock, calls>>
    /\ UNCHANGED <<cpc, events, wire, written, offset, items>>
    /\ UNCHANGED <<file, opts, pc, i, current_start, boundaries, wstate, position, log,
                   stats, sinks, disk>>
    /\ UNCHANGED mergeVars

\* tx.commit() after the loop: the rows of the transaction become the rows of
\* the table; a failed commit is rolled back when the Transaction is dropped.
insert_batch_commit ==
    /\ ipc = "batch"
    /\ bpos = Len(batch)
    /\ \/ /\ table' = txn
          /\ calls' = [calls EXCEPT !.ok = TRUE]
          /\ UNCHANGED io_faults
       \/ /\ Budget > 0
          /\ io_faults' = io_faults + 1
          /\ UNCHANGED <<table, calls>>
    /\ txn' = NoTxn
    /\ ipc' = "ready"
    /\ UNCHANGED <<batch, bpos, clock>>
    /\ UNCHANGED <<cpc, events, wire, written, offset, items>>
    /\ UNCHANGED <<file, opts, pc, i, current_start, boundaries, wstate, position, log,
                   stats, sinks, disk>>
    /\ UNCHANGED mergeVars

\* The process is interrupted inside insert_batch and the index is opened
\* again (EventIndex::new): SQLite rolls the unfinished transaction back.
insert_batch_interrupted ==
    /\ ipc = "batch"
    /\ txn' = NoTxn
    /\ ipc' = "ready"
    /\ UNCHANGED <<table, batch, bpos, clock, calls>>
    /\ UNCHANGED <<cpc, events, wire, written, offset, items>>
    /\ UNCHANGED <<file, opts, pc, i, current_start, boundaries, wstate, position, log,
                   stats, sinks, disk, io_faults>>
    /\ UNCHANGED mergeVars

\* A new index (EventIndex::new on a path with no database) and any sequence
\* of insert and insert_batch calls on it.
InitIndex ==
    /\ NoRun
    /\ cpc = "idle"
    /\ events = <<>>
    /\ wire = <<>>
    /\ written = 0
    /\ offset = 0
    /\ items = <<>>
    /\ ipc = "ready"
    /\ table = <<>>
    /\ txn = NoTxn
    /\ batch = <<>>
    /\ bpos = 0
    /\ clock = 0
    /\ calls = NoCall

NextIndex ==
    \/ EventIndex_insert
    \/ insert_batch_begin
    \/ insert_batch_execute
    \/ insert_batch_commit
    \/ insert_batch_interrupted

SpecIndex == InitIndex /\ [][NextIndex]_vars

\* `proton-beam convert` from its start to its return, the merge of the
\* staging files included.
NextRun ==
    \/ find_chunk_boundaries
    \/ spawn_workers
    \/ \E w \in Workers : process_chunk(w)
    \/ \E w \in Workers : process_chunk_end(w)
    \/ join_workers
    \/ convert_events
    \/ convert_events_end
    \/ merge_temp_files
    \/ merge_next_date
    \/ merge_open_source
    \/ merge_read_frame
    \/ merge_finish
    \/ convert_events_parallel_end

SpecRun == Init /\ [][NextRun]_vars

SpecAgain == InitAgain /\ [][NextRun]_vars


\* ======================================================== properties
\* find_chunk_boundaries has returned.
Planned == pc \in {"spawn", "workers", "merge", "failed"}

\* C1: for a non-empty file and n >= 1 the chunks find_chunk_boundaries
\* returns are contiguous, do not overlap and cover the file: there is a
\* chunk, the first starts at 0, each starts where the one before it ends,
\* each has start <= end <= file size, and the last ends at the file size (and
\* the scheduler does not underflow on the way).
ChunksPartitionFile ==
    /\ pc # "panic"
    /\ (Planned /\ FileSize(file) > 0) =>
         /\ Len(boundaries) >= 1
         /\ boundaries[1][1] = 0
         /\ \A k \in 1..(Len(boundaries) - 1) : boundaries[k + 1][1] = boundaries[k][2]
         /\ \A k \in 1..Len(boundaries) :
              /\ boundaries[k][1] <= boundaries[k][2]
              /\ boundaries[k][2] <= FileSize(file)
         /\ boundaries[Len(boundaries)][2] = FileSize(file)

\* A plan of three chunks, the middle one not empty, over a file that holds a
\* line longer than the look-ahead buffer.
ChunksPartitionFileWitness ==
    /\ Planned
    /\ Len(boundaries) = 3
    /\ boundaries[2][1] < boundaries[2][2]
    /\ boundaries[2][2] < FileSize(file)
    /\ \E k \in 1..Len(file.lines) : file.lines[k].len > LookAhead

\* C2: every chunk boundary find_chunk_boundaries returns falls right after
\* a line terminator or at end-of-file, whatever the lengths of the lines.
BoundariesOnLineEnds ==
    Planned =>
      \A k \in 1..Len(boundaries) :
         \/ boundaries[k][2] = FileSize(file)
         \/ boundaries[k][2] - 1 \in NewlineOffsets(file)

\* Every worker returned Ok.
AllWorkersOk == pc = "merge"

\* The reads of all workers that returned exactly the bytes [from, to).
ReadsOf(from, to) ==
    { <<w, n>> \in UNION { {w} \X (1..Len(log[w])) : w \in DOMAIN log } :
        log[w][n].from = from /\ log[w][n].to = to }

\* C3: in a parallel run whose workers all return Ok, every line of the file
\* is read by exactly one worker, once, and every read is a whole line.
EveryLineReadOnce ==
    AllWorkersOk =>
      /\ \A k \in 1..Len(file.lines) :
           Cardinality(ReadsOf(LineStart(file, k), LineEnd(file, k))) = 1
      /\ \A w \in DOMAIN log : \A n \in 1..Len(log[w]) : log[w][n].whole


\* The run went through its whole input and printed its summary.
RunCompleted == pc \in {"merge", "done", "exit1"}

\* C4: in both modes, with the kind prefilter on or off, every line counted in
\* total_lines is counted under exactly one outcome: at the end of a run
\* total_lines = valid_events + invalid_events + skipped_lines.
EveryLineCountedOnce ==
    RunCompleted =>
      stats.total_lines = stats.valid_events + stats.invalid_events + stats.skipped_lines

\* The events store_event accepted that still sit in a buffer.
BufferedEvents ==
    UNION { UNION { Range(sinks[w].buffers[d]) : d \in DOMAIN sinks[w].buffers } :
            w \in DOMAIN sinks }

\* The events written to any artifact.
WrittenEvents ==
    UNION { UNION { Range(disk[p][m]) : m \in 1..Len(disk[p]) } : p \in DOMAIN disk }

\* The event passed basic validation and every check the run enables.
Accepted(ev) ==
    /\ validate_basic_fields(ev)
    /\ opts.validate_event_ids => validate_event_id_from_hash(ev)
    /\ opts.validate_signatures => validate_signature_from_hash(ev)

\* C5: every event handed to the storage sink, buffered or written, passed
\* basic validation and every enabled check (event id, signature); no rejected
\* event is ever written.
OnlyAcceptedEventsReachSink == \A ev \in BufferedEvents \cup WrittenEvents : Accepted(ev)

Outcomes == { log[w][n].outcome : <<w, n>> \in UNION { {w} \X (1..Len(log[w])) : w \in DOMAIN log } }

\* A completed run with signature checking on and id checking off that
\* rejected an event for its signature and wrote another one.
OnlyAcceptedEventsReachSinkWitness ==
    /\ RunCompleted
    /\ opts.validate_signatures /\ ~opts.validate_event_ids
    /\ "sig_invalid" \in Outcomes
    /\ "stored" \in Outcomes
    /\ WrittenEvents # {}

\* C10: a failure on one input line never ends the processing of the line's
\* chunk (parallel) or of the file (single-threaded): every reader that has
\* stopped has read to the end of its chunk or of the file.
BadLineNeverEndsProcessing ==
    /\ \A w \in DOMAIN wstate :
         wstate[w] # "run" => (position[w] >= chunk_stop(w) \/ position[w] >= FileSize(file))
    /\ pc \in {"done", "exit1", "failed"} /\ opts.num_threads = 1 =>
         position[0] >= FileSize(file)


\* merge_protobuf_files_with_dedup returned Ok.
MergeDone == mpc = "done"

\* The merge in progress or just ended.
ThisRun == runs[Len(runs)]

FinalNow == FileAt(disk, final_file(date_str))

RECURSIVE ReadFrom(_, _)
\* The events read_events_delimited yields as Ok items from frame n on.
ReadFrom(stream, n) ==
    IF next(stream, n) = "none" THEN <<>>
    ELSE IF next(stream, n) = "err" THEN ReadFrom(stream, n + 1)
    ELSE <<stream[n]>> \o ReadFrom(stream, n + 1)

\* The events successfully decoded from an artifact.
Decoded(art) == ReadFrom(create_gzip_decoder(art), 1)

Ids(evs) == { evs[k].id : k \in DOMAIN evs }

\* What source k of this merge held when the merge began.
SourceAt(k) ==
    IF all_sources[k] = final_file(date_str) THEN ThisRun.final
    ELSE FileAt(disk, all_sources[k])

\* The sources of this merge that File::open opened.
Opened == { k \in 1..Len(all_sources) : all_sources[k] \notin unopened }

DecodedIds == UNION { Ids(Decoded(SourceAt(k))) : k \in Opened }

RECURSIVE DecodedCount(_)
\* The number of events decoded from the opened sources among the first k.
DecodedCount(k) ==
    IF k = 0 THEN 0
    ELSE DecodedCount(k - 1) + (IF k \in Opened THEN Len(Decoded(SourceAt(k))) ELSE 0)

MergeCountsAddUp ==
    MergeDone =>
      /\ mstats.event_count + mstats.duplicate_count = DecodedCount(Len(all_sources))
      /\ mstats.event_count = Cardinality(DecodedIds)

\* A completed merge that read an earlier final artifact, dropped a duplicate,
\* skipped a corrupted frame and wrote two events.
MergeCountsAddUpWitness ==
    /\ MergeDone
    /\ ThisRun.existed
    /\ unopened = {}
    /\ mstats.duplicate_count > 0
    /\ mstats.corrupted_events > 0
    /\ mstats.event_count = 2

\* C8: a second merge over the same staging sources of a date, with no new
\* input and every source opened in both runs, leaves a final artifact with
\* the same set of events as the first.
RemergeKeepsEventSet ==
    (/\ MergeDone
     /\ Len(runs) = 2
     /\ runs[1].ok /\ runs[1].stats.source_errors = 0
     /\ mstats.source_errors = 0) =>
      Range(Decoded(FinalNow)) = Range(Decoded(runs[2].final))

\* Two completed merges, the first of which changed the earlier final
\* artifact and kept two events, the second of which found duplicates only.
RemergeKeepsEventSetWitness ==
    /\ MergeDone
    /\ Len(runs) = 2
    /\ runs[1].ok /\ runs[1].stats.source_errors = 0
    /\ mstats.source_errors = 0
    /\ runs[1].existed
    /\ Range(Decoded(runs[1].final)) # Range(Decoded(runs[2].final))
    /\ Cardinality(Range(Decoded(runs[2].final))) = 2
    /\ mstats.duplicate_count >= 2

\* C9: a final artifact that exists before a merge is read as one more
\* source: every event id the decoder reads from it is in the final artifact
\* after the merge, once.
PreviousFinalKept ==
    (MergeDone /\ ThisRun.existed) =>
      /\ all_sources[Len(all_sources)] = final_file(date_str)
      /\ final_file(date_str) \notin unopened =>
           \A id \in Ids(Decoded(ThisRun.final)) :
              Cardinality({ a \in 1..Len(FinalNow[1]) : FinalNow[1][a].id = id }) = 1

\* A completed merge whose earlier final artifact held an id that no staging
\* file holds and an id that a staging file holds too.
PreviousFinalKeptWitness ==
    /\ MergeDone
    /\ ThisRun.existed
    /\ unopened = {}
    /\ Ids(Decoded(ThisRun.final)) = {1, 2}
    /\ UNION { Ids(Decoded(SourceAt(k))) : k \in 1..Len(sources) } = {1}


\* Worker w read its chunk to the end.
OwnChunkRead(w) == position[w] >= chunk_stop(w) \/ position[w] >= FileSize(file)

\* The last read of worker w failed.
OwnReadError(w) == log[w] # <<>> /\ log[w][Len(log[w])].outcome = "read_error"

\* C11: a worker failure stops that worker only: under every interleaving a
\* worker that has stopped either read its own chunk to the end or met a read
\* error of its own, and rayon::scope returns only when no worker is running.
SiblingsRunToCompletion ==
    /\ \A w \in DOMAIN wstate : wstate[w] # "run" => (OwnChunkRead(w) \/ OwnReadError(w))
    /\ pc \in {"merge", "failed"} => \A w \in DOMAIN wstate : wstate[w] # "run"

\* A joined run in which one worker failed on a read and a sibling stored an
\* event of its own chunk and returned Ok.
SiblingsRunToCompletionWitness ==
    /\ pc = "failed"
    /\ \E a, b \in DOMAIN wstate :
         /\ wstate[a] = "failed" /\ OwnReadError(a)
         /\ wstate[b] = "done"
         /\ \E n \in 1..Len(log[b]) : log[b][n].outcome = "stored"


\* The owner of sink w (worker w, or convert_events for w = 0 in a
\* single-threaded run) has left its function.
Exited(w) ==
    IF w \in DOMAIN wstate THEN wstate[w] # "run"
    ELSE pc \in {"done", "exit1", "failed"}

\* The events for which store_event returned Ok to the owner of sink w.
StoredBy(w) ==
    { file.lines[LineAt(file, log[w][n].from)].ev :
        n \in { m \in 1..Len(log[w]) : log[w][m].outcome = "stored" } }

MergeStageAtWork == pc = "merging" \/ mpc \in {"open", "read", "finish"}

\* The source the merge is opening or reading is a staging file.
ReadingStagingFile ==
    /\ mpc \in {"open", "read"}
    /\ idx \in DOMAIN all_sources
    /\ all_sources[idx] \in StagingPaths(disk)

\* C13: the merge stage starts only after all workers have terminated: while
\* merge_temp_files is at work, and so whenever it opens or reads a staging
\* file, no worker is still reading its chunk and no worker holds an open
\* writer on a staging file.
MergeStartsAfterAllWorkers ==
    MergeStageAtWork =>
       \A w \in DOMAIN wstate :
          /\ wstate[w] # "run"
          /\ sinks[w].writers = {}

\* A run of two workers or more whose merge is reading one of their staging
\* files.
MergeStartsAfterAllWorkersWitness ==
    /\ pc = "merging"
    /\ Cardinality(DOMAIN wstate) >= 2
    /\ ReadingStagingFile
    /\ mpc = "read"
    /\ frame = 1


\* C14: the merge of a date writes only to a separate temporary output and
\* replaces the final artifact by one rename: until the rename the final path
\* holds exactly what it held when the merge began (also after a failure of
\* that merge), and after it the complete output, every event the merge wrote.
FinalReplacedByOneRename ==
    Len(runs) > 0 =>
       LET final == final_file(ThisRun.date)
           out == temp_output(ThisRun.date)
       IN  /\ mpc \in {"open", "read", "finish", "failed"} =>
                /\ (final \in DOMAIN disk) = ThisRun.existed
                /\ FileAt(disk, final) = ThisRun.final
                /\ ~ThisRun.ok
           /\ mpc = "done" =>
                /\ ThisRun.ok
                /\ out \notin DOMAIN disk
                /\ final \in DOMAIN disk
                /\ Len(disk[final]) = 1
                /\ Len(disk[final][1]) = ThisRun.stats.event_count

\* A merge that failed after it wrote an event to its output, for a date whose
\* final artifact held events.
FinalReplacedByOneRenameWitness ==
    /\ Len(runs) > 0
    /\ mpc = "failed"
    /\ ThisRun.existed
    /\ Decoded(ThisRun.final) # <<>>
    /\ temp_output(ThisRun.date) \in DOMAIN disk
    /\ Len(disk[temp_output(ThisRun.date)][1]) >= 1


\* C15: a merge source that cannot be opened is counted and skipped: the
\* count of source errors is the number of sources File::open refused, and a
\* merge that completes after such a refusal has produced the final artifact
\* with the events decoded from every source it could open.
UnopenableSourceSkipped ==
    mpc \in {"open", "read", "finish", "done"} =>
       /\ mstats.source_errors = Cardinality(unopened)
       /\ unopened \subseteq Range(all_sources)
       /\ (MergeDone /\ unopened # {}) =>
            /\ ThisRun.ok
            /\ final_file(date_str) \in DOMAIN disk
            /\ \A k \in Opened : Ids(Decoded(SourceAt(k))) \subseteq Ids(Decoded(FinalNow))

\* A completed merge whose first source could not be opened and whose second
\* source held an event, now in the final artifact.
UnopenableSourceSkippedWitness ==
    /\ MergeDone
    /\ Len(all_sources) >= 2
    /\ all_sources[1] \in unopened
    /\ Decoded(FileAt(disk, all_sources[1])) # <<>>
    /\ 2 \in Opened
    /\ Ids(Decoded(SourceAt(2))) # {}
    /\ Ids(Decoded(SourceAt(2))) \subseteq Ids(Decoded(FinalNow))
    /\ mstats.source_errors = 1


\* The decoded stream of source k of this merge.
StreamAt(k) == create_gzip_decoder(SourceAt(k))

\* Source k of this merge ends inside a frame: inside the length prefix or
\* inside the payload of its last frame.
TruncatedMidFrame(k) ==
    /\ StreamAt(k) # <<>>
    /\ StreamAt(k)[Len(StreamAt(k))] \in {CutPayload, CutPrefix}

\* C16: when a merge source is truncated mid-frame the events decoded from it
\* before the truncation are in the final artifact, the reported count of
\* corrupted events is above zero, and the merge completes with the other
\* sources.
TruncatedSourceCounted ==
    MergeDone =>
       \A k \in Opened :
          TruncatedMidFrame(k) =>
             /\ mstats.corrupted_events > 0
             /\ Ids(Decoded(SourceAt(k))) \subseteq Ids(Decoded(FinalNow))


\* The stream of the source the merge is reading.
CurrentStream == create_gzip_decoder(FileAt(disk, all_sources[idx]))

\* C17: a decode failure on one frame is fatal to that stream position: when
\* the merge is about to read a frame of a source, no earlier frame of that
\* source gave a decode error.
NoReadAfterDecodeError ==
    (mpc = "read" /\ frame \in DOMAIN CurrentStream) =>
       \A m \in 1..(frame - 1) : next(CurrentStream, m) # "err"


\* C18: the stream decoder ends the sequence only at a true end of stream on
\* a frame boundary: where the merge calls it, it returns None only past the
\* last frame, and a stream that ends inside a length prefix or inside a
\* payload, or holds a malformed payload, gives an error item there.
CleanEndOnlyAtEndOfStream ==
    mpc = "read" =>
       /\ next(CurrentStream, frame) = "none" => frame > Len(CurrentStream)
       /\ (frame \in DOMAIN CurrentStream
             /\ CurrentStream[frame] \in {BadFrame, CutPayload, CutPrefix}) =>
            next(CurrentStream, frame) = "err"


\* The dates merge_protobuf_files_with_dedup has been called for.
Attempted == { runs[k].date : k \in DOMAIN runs }

\* C19: a failure while merging one date does not prevent the merge of any
\* other date: every date group found in the staging directory is waiting for
\* its merge or has had it attempted, and merge_temp_files returns only when
\* no date is waiting, whatever the earlier merges returned.
EveryDateMergeAttempted ==
    /\ pc = "merging" => StagingDates(disk) = pending \cup Attempted
    /\ pc # "merging" => pending = {}

\* merge_temp_files at its return: the merge of one date failed and the merge
\* of another date, attempted after it, completed.
EveryDateMergeAttemptedWitness ==
    /\ pc = "merging"
    /\ pending = {}
    /\ Len(runs) = 2
    /\ ~runs[1].ok
    /\ runs[2].ok
    /\ runs[1].date # runs[2].date
    /\ mpc = "done"
    /\ Decoded(FinalNow) # <<>>


\* The files a step created or changed.
Written == { p \in DOMAIN disk' : p \notin DOMAIN disk \/ disk'[p] # disk[p] }

\* Worker w took the step.
StepOf(w) == position'[w] # position[w] \/ wstate'[w] # wstate[w]

\* C20: in a parallel run no two workers write to the same file and no worker
\* writes to a final artifact path: every file a step of the workers' phase
\* creates or changes is thread_w_{date}.pb.gz.tmp of the one worker w that
\* took the step, and no file is removed.
WorkersWriteOwnStagingFiles ==
    [][pc = "workers" =>
         /\ DOMAIN disk \subseteq DOMAIN disk'
         /\ \A p \in Written :
              /\ p[1] # NoPrefix
              /\ p[1] \in DOMAIN wstate
              /\ StepOf(p[1])
              /\ \A v \in DOMAIN wstate \ {p[1]} : ~StepOf(v)]_vars

\* Two workers that each wrote an event of the same date, each to its own
\* staging file, with no final artifact written.
WorkersWriteOwnStagingFilesWitness ==
    /\ pc = "merge"
    /\ \E day \in {0, 1} :
         /\ Decoded(FileAt(disk, Path(0, day))) # <<>>
         /\ Decoded(FileAt(disk, Path(1, day))) # <<>>
    /\ \A p \in DOMAIN disk : p[1] \in DOMAIN wstate
    /\ \A w \in DOMAIN sinks : sinks[w].prefix = w


\* The line of the input that entry n of the single-threaded log is about.
LineOfEntry(n) == file.lines[LineAt(file, log[0][n].from)]

\* The single-threaded run has ended with its summary printed.
SingleRunEnded == opts.num_threads = 1 /\ pc \in {"done", "exit1"}

\* C21: in single-threaded mode on an empty output directory, when the same
\* event line occurs k times in the input only its first occurrence is stored:
\* no later occurrence of a stored line is stored again, and valid_events
\* counts each stored line once.
RepeatedLineStoredOnce ==
    SingleRunEnded =>
       /\ \A a, b \in DOMAIN log[0] :
            (a < b /\ LineOfEntry(a) = LineOfEntry(b) /\ log[0][a].outcome = "stored")
               => log[0][b].outcome # "stored"
       /\ stats.valid_events =
            Cardinality({ LineOfEntry(n) : n \in { m \in DOMAIN log[0] : log[0][m].outcome = "stored" } })


\* A conversion run has returned Ok after its summary.
ConvertReturnedOk == pc = "done"

\* How many frames of the artifact at path p, in any of its gzip members,
\* hold an event with this id.
HeldTimes(p, id) ==
    Cardinality({ <<m, k>> \in UNION { {m} \X DOMAIN disk[p][m] : m \in DOMAIN disk[p] } :
                    disk[p][m][k].id = id })

\* C22: converting the same input a second time into the same output
\* directory stores no new event: the second run reports valid = 0 and the
\* final artifacts hold each event id once.
SecondRunStoresNothing ==
    ConvertReturnedOk =>
       /\ stats.valid_events = 0
       /\ \A p \in DOMAIN disk : p[1] = NoPrefix =>
            \A id \in 1..6 : HeldTimes(p, id) <= 1


\* The conversion run has ended: Ok, exit code 1, or Err.
ConvertEnded == pc \in {"done", "exit1", "failed"}

\* C23: a conversion run, in either mode and with or without the kind
\* prefilter, whose input held at least one line and that stored no valid
\* event ends with a failure status; a run over an empty input that met no
\* I/O failure ends successfully with 0 lines processed.
ZeroValidRunFails ==
    ConvertEnded =>
       /\ (file.lines # <<>> /\ stats.valid_events = 0) => pc \in {"exit1", "failed"}
       /\ (file.lines = <<>> /\ io_faults = 0) => (pc = "done" /\ stats.total_lines = 0)


\* C24: for every finite sequence of events, the bytes write_events_delimited
\* produces are read back by read_events_delimited as the same events in the
\* same order and number, with no error item; the empty sequence gives the
\* empty sequence.
StreamRoundTrip ==
    /\ cpc = "end" => (items = events /\ offset = Len(wire))
    /\ cpc = "read" => (offset <= Len(wire) /\ items = SubSeq(events, 1, Len(items)))

\* A round trip of two events, one with a two-byte length prefix and one with
\* an empty encoding.
StreamRoundTripWitness ==
    /\ cpc = "end"
    /\ Len(events) = 2
    /\ items = events
    /\ \E k \in DOMAIN events : events[k].len >= 128
    /\ \E k \in DOMAIN events : events[k] = DefaultEvent


\* The id the last call of insert was given is already indexed.
InsertOfIndexedId ==
    /\ calls.op = "insert"
    /\ calls.arg[1].id \in DOMAIN calls.before

\* C25: index insert is idempotent on the id: after any sequence of calls,
\* an insert of an id that is already indexed returns Ok unless SQLite
\* failed, and leaves the number of rows and every column of the existing row
\* as they were; no call ever modifies or removes a row.
InsertIdempotent ==
    /\ (ipc = "ready" /\ InsertOfIndexedId) =>
          /\ table = calls.before
          /\ io_faults = 0 => calls.ok
    /\ \A id \in DOMAIN calls.before : id \in DOMAIN table /\ table[id] = calls.before[id]

\* An insert, at a later time and for another file, of an event whose id was
\* indexed by an earlier call with another kind.
InsertIdempotentWitness ==
    /\ ipc = "ready"
    /\ InsertOfIndexedId
    /\ calls.ok
    /\ calls.n >= 2
    /\ table[calls.arg[1].id].kind # calls.arg[1].kind
    /\ table[calls.arg[1].id].indexed_at < clock
    /\ Cardinality(DOMAIN table) = 1

\* The ids of the rows insert_batch was given.
BatchIds == { calls.arg[k][1].id : k \in DOMAIN calls.arg }

\* C26: insert_batch is atomic: while it runs, and after it failed or was
\* interrupted, the index shows exactly the rows it showed before the call;
\* after it returned Ok every id of the batch is indexed.
BatchAtomic ==
    calls.op = "insert_batch" =>
       /\ ipc = "batch" => table = calls.before
       /\ (ipc = "ready" /\ ~calls.ok) => table = calls.before
       /\ (ipc = "ready" /\ calls.ok) =>
            /\ BatchIds \subseteq DOMAIN table
            /\ DOMAIN table = DOMAIN calls.before \cup BatchIds

\* An insert_batch of two new ids that ended without Ok after its first row
\* was executed, with neither row in the index.
BatchAtomicWitness ==
    /\ calls.op = "insert_batch"
    /\ ipc = "ready"
    /\ ~calls.ok
    /\ bpos >= 1
    /\ Cardinality(BatchIds) = 2
    /\ BatchIds \cap DOMAIN table = {}

\* ------------------------------------------- validation before hashing
\* The entries of the log that hold a whole line of the input.
WholeEntries == { <<w, n>> \in UNION { {w} \X (1..Len(log[w])) : w \in DOMAIN log } : log[w][n].whole }

InputLineOf(w, n) == file.lines[LineAt(file, log[w][n].from)]

\* The outcomes a line can only get after compute_event_hash was called.
HashOutcomes == {"hash_error", "id_mismatch", "sig_invalid"}

\* C27: basic-field validation precedes hashing.  A line whose event fails
\* validate_basic_fields ends as a validation error of the basic fields, never
\* with an outcome of the hash, the event-id or the signature stage and never
\* stored; a line whose kind is outside 0..65535 ends at the prefilter or at
\* the parser, before any stage that hashes.
ValidationPrecedesHashing ==
    \A e \in WholeEntries :
        LET line == InputLineOf(e[1], e[2])
            outcome == log[e[1]][e[2]].outcome
        IN  /\ (line.utf8 /\ ~line.blank /\ line.json /\ (line.kind < 0 \/ line.kind > MaxKind))
                  => outcome \in {"filtered", "parse_error"}
            /\ (line.utf8 /\ try_from_ok(line) /\ ~validate_basic_fields(line.ev))
                  => outcome \in {"filtered", "validation_error"}

\* A line whose event fails the basic fields and whose id does not match its
\* hash was processed with the event-id check on, and a line of kind 70000
\* was rejected by the parser.
ValidationPrecedesHashingWitness ==
    /\ opts.validate_event_ids
    /\ \E e \in WholeEntries :
          /\ InputLineOf(e[1], e[2]).cls = "negts"
          /\ ~InputLineOf(e[1], e[2]).ev.id_matches
          /\ log[e[1]][e[2]].outcome = "validation_error"
    /\ \E e \in WholeEntries :
          /\ InputLineOf(e[1], e[2]).cls = "bigkind"
          /\ log[e[1]][e[2]].outcome = "parse_error"

\* ------------------------------------------------------ kind prefilter
\* The ids of the events an output directory holds.
StoredIds(dsk) ==
    UNION { UNION { Ids(dsk[p][m]) : m \in 1..Len(dsk[p]) } : p \in DOMAIN dsk }

\* C28: the kind prefilter drops no line that would be stored with the
\* prefilter off: a line that ended at the prefilter does not pass the other
\* stages, and a single-threaded run with no I/O fault leaves the events that
\* the run with the prefilter off leaves.
PrefilterDropsNoStorableLine ==
    /\ \A e \in WholeEntries :
          log[e[1]][e[2]].outcome = "filtered"
             => Stages(InputLineOf(e[1], e[2]), FALSE, opts.validate_event_ids,
                       opts.validate_signatures) # "store"
    /\ (SingleRunEnded /\ io_faults = 0)
          => StoredIds(disk) =
               StoredIds(convert_events_output(file, [opts EXCEPT !.filter_invalid_kinds = FALSE]))

\* --------------------------------------------------------- blank lines
\* The input holds blank lines and valid events only.
OnlyBlankAndValidLines ==
    \A k \in DOMAIN file.lines : file.lines[k].cls \in {"blank", "good", "good2"}

BlankLines == { k \in DOMAIN file.lines : file.lines[k].blank }

\* C29: a blank line is counted as skipped, in both modes: every blank line
\* read ends as "skipped", and a run with no I/O fault on an input of blank
\* lines and valid events reports as many skipped lines as the input has blank
\* lines and as many valid events as it has other lines.
BlankLinesCountedSkipped ==
    /\ \A e \in WholeEntries :
          InputLineOf(e[1], e[2]).blank => log[e[1]][e[2]].outcome = "skipped"
    /\ (RunCompleted /\ io_faults = 0 /\ OnlyBlankAndValidLines)
          => /\ stats.skipped_lines = Cardinality(BlankLines)
             /\ stats.valid_events = Len(file.lines) - Cardinality(BlankLines)

\* ------------------------------------------------------- date keys
\* The events of an artifact, in all of its gzip members.
EventsAt(p) == UNION { Range(disk[p][m]) : m \in 1..Len(disk[p]) }

\* The UTC calendar date of the timestamps the input lines carry.
UtcDate(ts) ==
    CASE ts = 1000       -> <<1970, 1, 1>>
      [] ts = 1758960000 -> <<2025, 9, 27>>

\* C30: every stored event is in the artifact of the UTC calendar date of its
\* created_at, day floor(created_at / 86400), and in no artifact of another
\* date; that holds of the events a sink still buffers, of the staging files
\* and of the final artifacts.  created_at 1000 is under 1970_01_01 and
\* 1758960000 under 2025_09_27.
EventsUnderOwnDate ==
    /\ \A p \in DOMAIN disk : \A ev \in EventsAt(p) :
          /\ p[2] * SecondsPerDay <= ev.created_at
          /\ ev.created_at < (p[2] + 1) * SecondsPerDay
          /\ date_string(p[2]) = UtcDate(ev.created_at)
    /\ \A w \in DOMAIN sinks : \A day \in DOMAIN sinks[w].buffers :
          \A ev \in Range(sinks[w].buffers[day]) :
             /\ day * SecondsPerDay <= ev.created_at
             /\ ev.created_at < (day + 1) * SecondsPerDay

\* A parallel run has returned with final artifacts of two dates, the events
\* of 1000 under 1970_01_01 and those of 1758960000 under 2025_09_27.
EventsUnderOwnDateWitness ==
    /\ pc = "done"
    /\ opts.num_threads > 1
    /\ { date_string(p[2]) : p \in DOMAIN disk } = {<<1970, 1, 1>>, <<2025, 9, 27>>}
    /\ \A p \in DOMAIN disk : p[1] = NoPrefix /\ EventsAt(p) # {}
    /\ { ev.created_at : ev \in UNION { EventsAt(p) : p \in DOMAIN disk } } = {1000, 1758960000}

\* ------------------------------------------------------- empty input
\* C31: for an empty input file the chunk scheduler returns zero chunks for
\* every number of chunks asked for, and no worker is started: no worker has a
\* state, a position, a log or a sink, and no line is counted.
EmptyFileHasNoChunk ==
    (FileSize(file) = 0 /\ pc # "plan") =>
        /\ pc # "panic"
        /\ boundaries = <<>>
        /\ Workers = {}
        /\ wstate = Nobody /\ position = Nobody /\ log = Nobody /\ sinks = Nobody
        /\ stats = ZeroStats
        /\ disk = <<>>

\* The workers of a call with three chunks on an empty file have been joined.
EmptyFileHasNoChunkWitness ==
    /\ FileSize(file) = 0
    /\ opts.num_threads = MaxChunks
    /\ pc = "merge"
    /\ boundaries = <<>>

\* ------------------------------------------------- a sink on its own
\* Events of two dates, two of them of the same date.
SinkEvents ==
    {Ev(5, 1000, 1, TRUE, TRUE), Ev(8, 2000, 1, TRUE, TRUE), Ev(6, 1758960000, 1, TRUE, TRUE),
     Ev(4, FarFuture, 1, TRUE, TRUE)}

MaxSinkBatch == 3

MaxStores == 4

\* One call of store_event on the sink, with any event and any I/O outcome of
\* the flush it may run.
StorageManager_store_event ==
    /\ pc = "sink"
    /\ calls.n < MaxStores
    /\ \E ev \in SinkEvents : \E io \in StoreIos(sinks[0], ev, opts.batch_size, Budget) :
         LET r == store_event(sinks[0], disk, ev, opts.batch_size, io)
         IN  /\ sinks' = [sinks EXCEPT ![0] = r.sink]
             /\ disk' = r.disk
             /\ io_faults' = io_faults + (IF io = -1 THEN 0 ELSE 1)
             /\ calls' = [n |-> calls.n + 1, op |-> "store_event", arg |-> <<ev>>,
                          before |-> <<sinks[0], disk>>, ok |-> r.ok]
    /\ UNCHANGED <<file, opts, pc, i, current_start, boundaries, wstate, position, log, stats>>
    /\ UNCHANGED mergeVars
    /\ UNCHANGED <<cpc, events, wire, written, offset, items, ipc, table, txn, batch, bpos, clock>>

\* StorageManager::new(output_dir, batch_size, level) on an empty directory,
\* as in the tests of storage.rs.
InitSink ==
    /\ file = [lines |-> <<>>, eofnl |-> TRUE]
    /\ \E b \in 1..MaxSinkBatch :
         opts = [num_threads |-> 1, filter_invalid_kinds |-> FALSE,
                 validate_event_ids |-> FALSE, validate_signatures |-> FALSE,
                 batch_size |-> b]
    /\ pc = "sink"
    /\ i = 0
    /\ current_start = 0
    /\ boundaries = <<>>
    /\ wstate = Nobody
    /\ position = Nobody
    /\ log = Nobody
    /\ sinks = [w \in {0} |-> EmptySink(NoPrefix)]
    /\ stats = ZeroStats
    /\ disk = <<>>
    /\ io_faults = 0
    /\ MergeIdle
    /\ LibIdle

NextSink == StorageManager_store_event

SpecSink == InitSink /\ [][NextSink]_vars


\* The sink and the directory before the last store_event call, its event and
\* the event's date.
SinkBefore == calls.before[1]

DiskBefore == calls.before[2]

StoredDay == get_date_string(calls.arg[1])

\* C32: after a store_event call that returned Ok, with batch size b >= 1,
\* every date buffer of the sink holds fewer than b events.  The buffer of
\* the event's date is flushed in the call in which it reaches b: it is then
\* gone from the sink and its events, the new one last, are at the end of the
\* date's file; below b the event is the last of the buffer and no file
\* changes.  The buffer of every other date is as it was before the call.
BuffersBelowBatch ==
    (calls.op = "store_event" /\ calls.ok) =>
        LET sink == sinks[0]
            filled == Append(BufferAt(SinkBefore, StoredDay), calls.arg[1])
            path == Path(sink.prefix, StoredDay)
            art == FileAt(disk, path)
        IN  /\ \A day \in DOMAIN sink.buffers :
                  /\ Len(sink.buffers[day]) >= 1
                  /\ Len(sink.buffers[day]) < opts.batch_size
            /\ \A day \in (DOMAIN sink.buffers \cup DOMAIN SinkBefore.buffers) \ {StoredDay} :
                  BufferAt(sink, day) = BufferAt(SinkBefore, day)
            /\ IF Len(filled) >= opts.batch_size
               THEN /\ StoredDay \notin DOMAIN sink.buffers
                    /\ art # <<>>
                    /\ Len(art[Len(art)]) >= Len(filled)
                    /\ SubSeq(art[Len(art)], Len(art[Len(art)]) - Len(filled) + 1,
                              Len(art[Len(art)])) = filled
               ELSE /\ BufferAt(sink, StoredDay) = filled
                    /\ disk = DiskBefore
            /\ \A p \in DOMAIN disk \ {path} : p \in DOMAIN DiskBefore /\ disk[p] = DiskBefore[p]

\* With batch size 2 a call has just flushed the two events of one date while
\* the sink holds an event of another date.
BuffersBelowBatchWitness ==
    /\ calls.op = "store_event" /\ calls.ok
    /\ opts.batch_size = 2
    /\ StoredDay \notin DOMAIN sinks[0].buffers
    /\ Len(BufferAt(SinkBefore, StoredDay)) = 1
    /\ \E day \in DOMAIN sinks[0].buffers : day # StoredDay /\ Len(sinks[0].buffers[day]) = 1

\* ---------------------------------------------------- shared counters
\* How many lines the workers ended with one of these outcomes.
CountOutcomes(S) ==
    Cardinality({ e \in UNION { {w} \X (1..Len(log[w])) : w \in DOMAIN log } :
                    log[e[1]][e[2]].outcome \in S })

RejectOutcomes ==
    {"parse_error", "validation_error", "hash_error", "id_mismatch", "sig_invalid",
     "storage_error"}

\* C33: after the workers of a parallel run have joined, under every
\* interleaving of their steps, total_lines is the number of lines the workers
\* read, valid_events the number of store_event calls that returned Ok,
\* invalid_events the number of rejected lines and skipped_lines the number of
\* blank lines read.
CountersAreSums ==
    (opts.num_threads > 1 /\ pc \in {"merge", "failed"}) =>
        /\ stats.total_lines = CountOutcomes(RejectOutcomes \cup {"skipped", "filtered", "stored"})
        /\ stats.valid_events = CountOutcomes({"stored"})
        /\ stats.invalid_events = CountOutcomes(RejectOutcomes)
        /\ stats.skipped_lines = CountOutcomes({"skipped"})

\* Two workers have each counted a line, one a stored event and one a failed
\* store, and have joined.
CountersAreSumsWitness ==
    /\ opts.num_threads > 1
    /\ pc = "merge"
    /\ Cardinality({ w \in DOMAIN log : log[w] # <<>> }) = 2
    /\ CountOutcomes({"stored"}) = 1
    /\ CountOutcomes({"storage_error"}) = 1
    /\ stats.total_lines = 2

\* ----------------------------------------------------- error categories
\* The message log_error gets for a rejected line, as the set of the phrases
\* from_error_message looks for that it holds.  The prefix names the stage;
\* the rest is the Display of the error: try_from's own "Event kind {} is out
\* of valid range", "Event ID mismatch: ..." and "Signature verification
\* failed: ..." of ValidationError, and texts with none of the phrases for
\* the JSON errors, "Invalid timestamp: {}" and the storage errors.
error_message(outcome, line) ==
    CASE outcome = "parse_error" ->
            IF line.json /\ (line.kind < 0 \/ line.kind > MaxKind)
            THEN {"parse_error", "kind", "out of valid range"}
            ELSE {"parse_error"}
      [] outcome = "validation_error" -> {"validation_error"}
      [] outcome = "hash_error"       -> {"hash_error"}
      [] outcome = "id_mismatch"      -> {"validation_error", "Event ID"}
      [] outcome = "sig_invalid"      -> {"validation_error", "Signature verification failed"}
      [] outcome = "storage_error"    -> {"storage_error"}

\* ErrorCategory::from_error_message: the first pattern the message holds.
from_error_message(msg) ==
    IF "Invalid tag value" \in msg THEN "InvalidTagValue"
    ELSE IF "kind" \in msg /\ "out of valid range" \in msg THEN "InvalidKind"
    ELSE IF "Signature verification failed" \in msg \/ "Invalid signature" \in msg
         THEN "InvalidSignature"
    ELSE IF "Event ID" \in msg \/ "EventIdMismatch" \in msg THEN "InvalidEventId"
    ELSE IF "hash_error" \in msg THEN "HashError"
    ELSE IF "storage_error" \in msg THEN "StorageError"
    ELSE IF "validation_error" \in msg THEN "ValidationError"
    ELSE IF "parse_error" \in msg THEN "ParseError"
    ELSE "ValidationError"

\* The line a log entry is about: the input line, or the tail a worker read
\* from inside one.
TextOfEntry(w, n) ==
    IF log[w][n].whole THEN InputLineOf(w, n) ELSE LineOf("garbage", ShortLen)

\* The category error_stats.increment gets for the line of a log entry.
RecordedCategory(w, n) ==
    from_error_message(error_message(log[w][n].outcome, TextOfEntry(w, n)))

\* The category the taxonomy gives the stage that rejected the line.
StageCategory(outcome) ==
    CASE outcome = "parse_error"      -> "ParseError"
      [] outcome = "validation_error" -> "ValidationError"
      [] outcome = "hash_error"       -> "HashError"
      [] outcome = "id_mismatch"      -> "InvalidEventId"
      [] outcome = "sig_invalid"      -> "InvalidSignature"
      [] outcome = "storage_error"    -> "StorageError"

\* C34: each rejected line is recorded in the error statistics under the
\* category of the stage that rejected it, and a line rejected by the basic
\* fields is recorded neither as an identity mismatch nor as an invalid
\* signature.
RejectedUnderStageCategory ==
    \A w \in DOMAIN log : \A n \in 1..Len(log[w]) :
        log[w][n].outcome \in RejectOutcomes =>
            RecordedCategory(w, n) = StageCategory(log[w][n].outcome)

\* The part of C34 about the basic fields alone.
BasicFieldFailureCategory ==
    \A w \in DOMAIN log : \A n \in 1..Len(log[w]) :
        log[w][n].outcome = "validation_error" =>
            RecordedCategory(w, n) \notin {"InvalidEventId", "InvalidSignature"}

\* ------------------------------------------------------ failed workers
\* The workers whose process_chunk returned Err: the pairs (thread_id, e) of
\* parallel_errors, each of which is logged and printed.
FailedWorkers == { w \in DOMAIN wstate : wstate[w] = "failed" }

\* C35: when a worker has failed, convert_events_parallel returns an error
\* after the join, the merge stage does not run, and every staging file is
\* left in the temp directory: no final artifact exists, and when no write
\* failed every event a worker stored, a failed worker included, is decoded
\* from the staging file of that worker and date.
WorkerFailureKeepsStaging ==
    (opts.num_threads > 1 /\ FailedWorkers # {} /\ pc # "workers") =>
        /\ pc = "failed"
        /\ mpc = "idle"
        /\ runs = <<>>
        /\ pending = {}
        /\ DOMAIN disk = StagingPaths(disk)
        /\ io_faults = 0 =>
              \A w \in DOMAIN sinks : \A ev \in StoredBy(w) :
                 ev \in Range(Decoded(FileAt(disk, Path(w, get_date_string(ev)))))

\* The run has returned after a worker failed that had stored an event, and
\* another worker had finished its chunk.
WorkerFailureKeepsStagingWitness ==
    /\ pc = "failed"
    /\ io_faults = 0
    /\ Cardinality(DOMAIN wstate) >= 2
    /\ \E w \in FailedWorkers : StoredBy(w) # {} /\ StagingPaths(disk) = {Path(w, 0)}
    /\ \E w \in DOMAIN wstate : wstate[w] # "failed"

\* ------------------------------------------- staging files after a merge
\* convert_events_parallel has returned.
ParallelRunReturned == opts.num_threads > 1 /\ pc \in {"done", "failed"}

\* C36: the staging files of a date are deleted only after that date was
\* merged successfully: when the merge of a date has failed, staging files of
\* that date still exist when convert_events_parallel returns.
StagingKeptForFailedDate ==
    ParallelRunReturned =>
        \A r \in 1..Len(runs) :
            ~runs[r].ok => \E p \in StagingPaths(disk) : p[2] = runs[r].date

\* ------------------------------------------- valid events and frames
\* The frames in the staging files of worker w, in all their gzip members.
FramesOf(w) ==
    Cardinality({ f \in UNION { UNION { {<<p, m>>} \X DOMAIN disk[p][m] : m \in DOMAIN disk[p] } :
                                p \in { q \in DOMAIN disk : q[1] = w } } : TRUE })

\* The lines worker w counted as valid.
ValidOf(w) == Cardinality({ n \in 1..Len(log[w]) : log[w][n].outcome = "stored" })

\* C37: when a worker has completed successfully, the number of events it
\* counted as valid is the number of frames it wrote to its staging files.
ValidEventsAreWritten ==
    (pc = "workers" \/ pc = "merge") =>
        \A w \in DOMAIN wstate : wstate[w] = "done" => ValidOf(w) = FramesOf(w)

\* The same with no I/O fault in the run.
ValidEventsAreWrittenNoFault ==
    io_faults = 0 => ValidEventsAreWritten


\* ---------------------------------------------------------------------------
\* Termination of the merge of one date.

\* The first member of a staging file whose reader may fail: whole events, or
\* events and a place where every read fails.
FaultyMembers ==
    SeqsUpTo(MergeEvents, MaxFrames)
      \cup { Append(m, ReadFault) : m \in SeqsUpTo(MergeEvents, MaxFrames - 1) }
      \cup { <<ReadFault, e>> : e \in MergeEvents }
      \cup { <<BadFrame, e>> : e \in MergeEvents }

\* `proton-beam merge` for one date over one or two staging files, the first
\* of which may hold a place where the reader fails.
InitMergeLive ==
    /\ file = [lines |-> <<>>, eofnl |-> TRUE]
    /\ opts = [num_threads |-> MaxSources, filter_invalid_kinds |-> FALSE,
               validate_event_ids |-> FALSE, validate_signatures |-> FALSE,
               batch_size |-> MaxBatch]
    /\ pc = "merge_cmd"
    /\ i = 0
    /\ current_start = 0
    /\ boundaries = <<>>
    /\ wstate = Nobody
    /\ position = Nobody
    /\ log = Nobody
    /\ sinks = Nobody
    /\ stats = ZeroStats
    /\ io_faults = 0
    /\ date_str = 0
    /\ \E n \in 1..MaxSources :
         /\ sources = [w \in 1..n |-> Path(w - 1, date_str)]
         /\ \E first \in FaultyMembers,
               rest \in [2..n -> { <<m>> : m \in SeqsUpTo(MergeEvents, MaxFrames - 1) }] :
              disk = [p \in Range(sources) |->
                        IF p = sources[1] THEN <<first>> ELSE rest[p[1] + 1]]
    /\ mpc = "idle"
    /\ all_sources = <<>>
    /\ idx = 0
    /\ frame = 0
    /\ seen_ids = {}
    /\ mstats = ZeroMergeStats
    /\ unopened = {}
    /\ pending = {}
    /\ runs = <<>>
    /\ LibIdle

\* The one thread that runs the merge takes its next step whenever it has one.
SpecMergeLive == InitMergeLive /\ [][NextMerge]_vars /\ WF_vars(NextMerge)

MergeRunning == mpc \in {"open", "read", "finish"}

MergeReturned == mpc \in {"done", "failed"}

\* The sources of the run hold no place where the reader keeps failing.
NoReadFault ==
    \A p \in DOMAIN disk : \A m \in 1..Len(disk[p]) :
       \A n \in 1..Len(disk[p][m]) : disk[p][m][n] # ReadFault

\* C38: merge_protobuf_files_with_dedup returns for every finite set of
\* sources, also for a source whose reader keeps returning an error item.
MergeTerminates == MergeRunning ~> MergeReturned

\* A merge over sources whose reader never repeats an error returns.
MergeTerminatesWithoutReadFault == (MergeRunning /\ NoReadFault) ~> MergeReturned


\* ------------------------------------------- a sink on an earlier artifact
\* What an earlier StorageManager with the same prefix left after it stored
\* and flushed the event ev.
EarlierArtifact(prefix, ev) == store_event(EmptySink(prefix), <<>>, ev, 1, -1).disk

\* A StorageManager of a later run, in direct mode (no prefix) or as worker 0
\* of a parallel run that is run again, over the artifact of an earlier run.
InitAppend ==
    /\ file = [lines |-> <<>>, eofnl |-> TRUE]
    /\ \E b \in 1..MaxSinkBatch :
         opts = [num_threads |-> 1, filter_invalid_kinds |-> FALSE,
                 validate_event_ids |-> FALSE, validate_signatures |-> FALSE,
                 batch_size |-> b]
    /\ pc = "sink"
    /\ i = 0
    /\ current_start = 0
    /\ boundaries = <<>>
    /\ wstate = Nobody
    /\ position = Nobody
    /\ log = Nobody
    /\ \E prefix \in {NoPrefix, 0}, ev \in SinkEvents :
         /\ date_ok(ev)
         /\ sinks = [w \in {0} |-> EmptySink(prefix)]
         /\ disk = EarlierArtifact(prefix, ev)
    /\ stats = ZeroStats
    /\ io_faults = 0
    /\ MergeIdle
    /\ LibIdle

SpecAppend == InitAppend /\ [][NextSink]_vars

\* C39: every event a later run appended to an artifact of an earlier run is
\* returned by the decoder that merge and the index rebuild use on the file,
\* as are the events of the earlier run.
AppendedEventsReadable ==
    \A p \in DOMAIN disk : \A m \in 1..Len(disk[p]) :
       Range(disk[p][m]) \subseteq Range(Decoded(disk[p]))


\* ----------------------------------------------- interleaving of workers
RECURSIVE ChunkStores(_, _)
\* The events a worker hands to store_event with success when it reads the
\* lines from offset p up to the end `stop` of its chunk and no call fails:
\* a function of the file, the flags and the two offsets.
ChunkStores(p, stop) ==
    IF p >= stop \/ p >= FileSize(file) THEN {}
    ELSE LET k == LineAt(file, p)
             ln == file.lines[k]
             stores == /\ p = LineStart(file, k)
                       /\ ln.utf8
                       /\ Stages(ln, opts.filter_invalid_kinds, opts.validate_event_ids,
                                 opts.validate_signatures) = "store"
                       /\ date_ok(ln.ev)
         IN  (IF stores THEN {ln.ev} ELSE {}) \cup ChunkStores(LineEnd(file, k), stop)

\* The ids the chunk plan assigns to the artifact of a date.
PlannedIds(day) ==
    { ev.id : ev \in { e \in UNION { ChunkStores(chunk_start(w), chunk_stop(w)) : w \in Workers } :
                         get_date_string(e) = day } }

\* The dates of the events of the input and of the files of the output.
RunDates ==
    { get_date_string(file.lines[k].ev) : k \in { n \in 1..Len(file.lines) : date_ok(file.lines[n].ev) } }
      \cup { p[2] : p \in DOMAIN disk }

LongLen == 9000

\* `proton-beam convert` on a file of two or three lines long enough for the
\* scheduler to give each worker lines of its own; some lines share an id.
InitLong ==
    /\ \E cls \in SeqsUpTo({"good", "good2", "nested", "badsig"}, MaxLines) :
         /\ Len(cls) >= 2
         /\ file = [lines |-> [k \in 1..Len(cls) |-> LineOf(cls[k], LongLen)], eofnl |-> TRUE]
    /\ \E n \in 1..MaxChunks, vsig \in BOOLEAN, b \in 1..MaxBatch :
         opts = [num_threads |-> n, filter_invalid_kinds |-> FALSE,
                 validate_event_ids |-> FALSE, validate_signatures |-> vsig,
                 batch_size |-> b]
    /\ pc = IF opts.num_threads > 1 THEN "plan" ELSE "single"
    /\ i = 0
    /\ current_start = 0
    /\ boundaries = <<>>
    /\ wstate = Nobody
    /\ position = IF opts.num_threads > 1 THEN Nobody ELSE [w \in {0} |-> 0]
    /\ log = IF opts.num_threads > 1 THEN Nobody ELSE [w \in {0} |-> <<>>]
    /\ sinks = IF opts.num_threads > 1 THEN Nobody ELSE [w \in {0} |-> EmptySink(NoPrefix)]
    /\ stats = ZeroStats
    /\ disk = <<>>
    /\ io_faults = 0
    /\ MergeIdle
    /\ LibIdle

SpecLong == InitLong /\ [][NextRun]_vars

\* C40: after a parallel run that returned Ok with no failed call, the set of
\* event ids in the final artifact of every date is the one the input file,
\* the flags and the chunk plan determine, whatever the interleaving of the
\* workers and whatever the shared counters held on the way.
FinalIdsDeterminedByPlan ==
    (opts.num_threads > 1 /\ pc = "done" /\ io_faults = 0) =>
        /\ \A p \in DOMAIN disk : p[1] = NoPrefix
        /\ \A day \in RunDates :
              Ids(Decoded(FileAt(disk, final_file(day)))) = PlannedIds(day)

\* A parallel run has returned after two workers each stored an event, and
\* the final artifacts hold two ids.
FinalIdsDeterminedByPlanWitness ==
    /\ opts.num_threads > 1 /\ pc = "done" /\ io_faults = 0
    /\ Len(boundaries) = 2
    /\ \A w \in DOMAIN log : StoredBy(w) # {}
    /\ Cardinality(StoredIds(disk)) = 2
====
